---- MODULE Spec2Model ----
(***************************************************************************)
(* State-machine model of the block-production core of blackcoin-more:     *)
(*   src/src/node/miner.cpp  BlockAssembler (CreateNewBlock, addPackageTxs) *)
(*   src/src/pos.cpp         CheckStakeKernelHash, CheckProofOfStake,       *)
(*                           CheckKernel                                    *)
(* Three specifications share the module:                                  *)
(*   Spec        the first CreateNewBlock call after startup, step by step, *)
(*               over every mempool of up to MaxTx entries                  *)
(*   SpecStake   successive CreateNewBlock calls with a wallet while the    *)
(*               clock advances, over every mempool of up to MaxStakeTx     *)
(*               entries                                                    *)
(*   SpecKernel  calls of the proof-of-stake kernel functions               *)
(***************************************************************************)
EXTENDS Integers, Sequences, FiniteSets, TLC

\* ------------------------------------------------------------------------
\* Bounds of the model
\* ------------------------------------------------------------------------

\* Largest number of entries in the mempool, under Spec and under SpecStake.
MaxTx == 3
MaxStakeTx == 2
\* Last value of the adjusted clock (GetAdjustedTimeSeconds); the first is
\* ClockStart.
MaxClock == 9
\* policy/policy.h and consensus/consensus.h limits, scaled down so that a
\* mempool of MaxTx entries can reach them (4,000,000 and 80,000 in the program).
DEFAULT_BLOCK_MAX_WEIGHT == 4016
MAX_BLOCK_SIGOPS_COST == 408
\* addPackageTxs' MAX_CONSECUTIVE_FAILURES (1000 in the program), scaled down.
MAX_CONSECUTIVE_FAILURES == 1
\* Height of the active tip; the block being built is one above.
TipHeight == 10

\* ------------------------------------------------------------------------
\* Program constants
\* ------------------------------------------------------------------------

\* Weight and sigop cost reserved for the coinbase by resetBlock.
COINBASE_RESERVED_WEIGHT == 4000
COINBASE_RESERVED_SIGOPS == 400
\* addPackageTxs: a block within this many weight units of nBlockMaxWeight
\* is close to full (4000 in the program), scaled down with the weight limit
\* so that a block of one entry is not yet close to full.
CloseToFullWeight == 8
\* consensus/consensus.h: vsize-to-weight factor.
WITNESS_SCALE_FACTOR == 4
\* Consensus::Params::nStakeTimestampMask (0xf in the program), scaled down
\* to two bits so that the clock range stays small.
nStakeTimestampMask == 3
\* First value of the adjusted clock: one second before a stake-timestamp
\* boundary.
ClockStart == 2 * (nStakeTimestampMask + 1) - 1

\* ------------------------------------------------------------------------
\* Small helpers
\* ------------------------------------------------------------------------

Max(a, b) == IF a >= b THEN a ELSE b
Min(a, b) == IF a <= b THEN a ELSE b

RECURSIVE SetSum(_, _)
SetSum(S, val) ==
    IF S = {} THEN 0
    ELSE LET x == CHOOSE y \in S : TRUE
         IN  val[x] + SetSum(S \ {x}, val)

RECURSIVE SeqSum(_)
SeqSum(s) == IF s = <<>> THEN 0 ELSE Head(s) + SeqSum(Tail(s))

Range(s) == {s[i] : i \in DOMAIN s}

\* ------------------------------------------------------------------------
\* The mempool (CTxMemPool, consumed read-only under mempool.cs)
\* ------------------------------------------------------------------------

\* Per-entry economics the mempool caches: weight, base fee, fee delta
\* (prioritisetransaction) and sigop cost.
EntryProfiles ==
    { [weight |-> 3, fee |-> 1, feeDelta |-> 0, sigOpCost |-> 0],
      [weight |-> 8, fee |-> 1, feeDelta |-> 0, sigOpCost |-> 0],
      [weight |-> 7, fee |-> 5, feeDelta |-> 1, sigOpCost |-> 4] }

\* Entries are numbered by their position in txid (hash) order. An entry's
\* parents have larger numbers, so the txid order is not a topological one;
\* they are among the two entries that follow it.
ParentChoices(n) ==
    { f \in [1..n -> SUBSET (1..n)] :
        \A t \in 1..n : f[t] \subseteq (t + 1)..Min(n, t + 2) }

\* All in-mempool ancestors of t, from the parent links (CalculateMemPoolAncestors).
RECURSIVE CalculateMemPoolAncestors(_, _)
CalculateMemPoolAncestors(ps, t) ==
    UNION { {p} \cup CalculateMemPoolAncestors(ps, p) : p \in ps[t] }

\* GetVirtualTransactionSize: the weight in units of WITNESS_SCALE_FACTOR,
\* rounded up.
GetVirtualTransactionSize(weight) ==
    (weight + WITNESS_SCALE_FACTOR - 1) \div WITNESS_SCALE_FACTOR

\* A CTxMemPoolEntry with the with-ancestor counters the mempool maintains.
CTxMemPoolEntry(ps, pr, t) ==
    LET anc  == CalculateMemPoolAncestors(ps, t)
        with == anc \cup {t}
        n    == DOMAIN pr
    IN  [ancestors               |-> anc,
         nTxWeight               |-> pr[t].weight,
         nFee                    |-> pr[t].fee,
         feeDelta                |-> pr[t].feeDelta,
         sigOpCost               |-> pr[t].sigOpCost,
         nCountWithAncestors     |-> Cardinality(with),
         nSizeWithAncestors      |->
             SetSum(with, [x \in n |-> GetVirtualTransactionSize(pr[x].weight)]),
         nModFeesWithAncestors   |->
             SetSum(with, [x \in n |-> pr[x].fee + pr[x].feeDelta]),
         nSigOpCostWithAncestors |->
             SetSum(with, [x \in n |-> pr[x].sigOpCost])]

MempoolsOfSize(n) ==
    { [t \in 1..n |-> CTxMemPoolEntry(ps, pr, t)] :
        ps \in ParentChoices(n), pr \in [1..n -> EntryProfiles] }

Mempools(maxSize) == UNION { MempoolsOfSize(n) : n \in 0..maxSize }

\* CTxMemPoolEntry accessors.
GetTxWeight(e) == e.nTxWeight
GetTxSize(e) == GetVirtualTransactionSize(e.nTxWeight)
GetFee(e) == e.nFee
GetModifiedFee(e) == e.nFee + e.feeDelta
GetSigOpCost(e) == e.sigOpCost

\* CTxMemPool::CalculateDescendants: t and every entry with t among its
\* ancestors.
CalculateDescendants(mp, t) ==
    {t} \cup { d \in DOMAIN mp : t \in mp[d].ancestors }

\* CTxMemPoolModifiedEntry(iter): a shadow record initialised from the
\* entry's with-ancestor counters.
CTxMemPoolModifiedEntry(e) ==
    [nSizeWithAncestors      |-> e.nSizeWithAncestors,
     nModFeesWithAncestors   |-> e.nModFeesWithAncestors,
     nSigOpCostWithAncestors |-> e.nSigOpCostWithAncestors]

\* update_for_parent_inclusion(it) applied to a shadow record.
update_for_parent_inclusion(e, parent) ==
    [nSizeWithAncestors      |-> e.nSizeWithAncestors - GetTxSize(parent),
     nModFeesWithAncestors   |-> e.nModFeesWithAncestors - GetModifiedFee(parent),
     nSigOpCostWithAncestors |-> e.nSigOpCostWithAncestors - GetSigOpCost(parent)]

\* CompareTxMemPoolEntryByAncestorFee: a is ordered before b when its
\* ancestor score (fee / size with ancestors) is higher; ties go to the
\* smaller txid. Feerates are compared by cross multiplication.
CompareTxMemPoolEntryByAncestorFee(ta, ea, tb, eb) ==
    LET f1 == ea.nModFeesWithAncestors * eb.nSizeWithAncestors
        f2 == ea.nSizeWithAncestors * eb.nModFeesWithAncestors
    IN  IF f1 = f2 THEN ta < tb ELSE f1 > f2

\* The first element of a non-empty set of entries in ancestor-score order,
\* each entry scored by score[t].
BestByAncestorScore(S, score) ==
    CHOOSE t \in S :
        \A u \in S \ {t} : CompareTxMemPoolEntryByAncestorFee(t, score[t], u, score[u])

RECURSIVE SortByAncestorScore(_, _)
SortByAncestorScore(S, score) ==
    IF S = {} THEN <<>>
    ELSE LET b == BestByAncestorScore(S, score)
         IN  <<b>> \o SortByAncestorScore(S \ {b}, score)

\* mapTx.get<ancestor_score>(): the mempool's entries in ancestor-score order.
AncestorScoreIndex(mp) ==
    SortByAncestorScore(DOMAIN mp, [t \in DOMAIN mp |-> CTxMemPoolModifiedEntry(mp[t])])

\* ------------------------------------------------------------------------
\* State
\* ------------------------------------------------------------------------

VARIABLES
    \* --- environment of the assembler
    mapTx,              \* the mempool: entry number -> CTxMemPoolEntry
    ancestorScoreIndex, \* mapTx.get<ancestor_score>(): entries, best first
    txData,             \* per entry, the transaction fields read so far
    nBlockMaxWeight,    \* m_options.nBlockMaxWeight, after ClampOptions
    blockMinFeeRate,    \* m_options.blockMinFeeRate, satoshis per 1000 vbytes
    clock,              \* GetAdjustedTimeSeconds()
    \* --- BlockAssembler and its template
    pc,                 \* "idle" | "select" | "coinbase" | "done"
    fIncludeWitness,
    inBlock, nBlockWeight, nBlockSigOpsCost, nBlockTx, nFees,
    vtx,                \* pblock->vtx: 0 the coinbase slot, CoinStakeRef, or an entry
    vTxFees, vTxSigOpsCost,
    block,              \* header fields and the coinbase of the template
    \* --- addPackageTxs locals
    mi, mapModifiedTx, failedTx, nConsecutiveFailed,
    cand,               \* the package evaluated by the last iteration
    \* --- proof-of-stake search
    nLastCoinStakeSearchTime,           \* static in CreateNewBlock; -1 before startup
    m_last_coin_stake_search_interval,
    stake,              \* pwallet, *pfPoSCancel, txCoinStake, MedianTimePast of the call
    result,             \* "none" | "template" | "null" | "throw"
    \* --- proof-of-stake kernel (pos.cpp)
    view,               \* CCoinsViewCache: prevout -> Coin, for the coins it holds
    pindexPrev,         \* the block index the kernel is checked on
    stakeCache,         \* std::map<COutPoint, CStakeCache>
    kernelCall,         \* the call of a pos.cpp function in progress, with its result
    freshEntries,       \* the outpoints CacheKernel inserted since the view and the prev index last changed
    \* --- RegenerateCommitments
    regen,              \* the block it is applied to, and the applications so far
    \* --- the staker (MinePoS, ThreadStakeMiner, PoSMiner)
    fEnableStaking,     \* static std::atomic<bool>
    m_minter_thread,    \* std::thread: 0 when not joinable, else the thread it owns
    tpc,                \* per staking thread, where it is
    tloc,               \* per staking thread, the locals of PoSMiner
    held,               \* per thread (0: the caller of MinePoS), the locks it holds
    caller,             \* the call of MinePoS, InterruptStaking or StopStaking in progress
    process,            \* "up" | "terminated" (std::terminate) | "crashed"
    node,               \* connman, -staking, the wallet, shutdown, the network
    strMintWarning,
    chainTip,           \* height of the active tip, which stands for its hash
    hashPrevBlock,      \* static in IncrementExtraNonce
    lastHanded          \* the block being handed to ProcessNewBlock

envVars  == <<mapTx, ancestorScoreIndex, nBlockMaxWeight, blockMinFeeRate>>
tmplVars == <<inBlock, nBlockWeight, nBlockSigOpsCost, nBlockTx, nFees,
              vtx, vTxFees, vTxSigOpsCost>>
selVars  == <<mi, mapModifiedTx, failedTx, nConsecutiveFailed, cand>>
posVars  == <<nLastCoinStakeSearchTime, m_last_coin_stake_search_interval, stake>>
asmVars  == <<envVars, clock, txData, pc, fIncludeWitness, tmplVars, block,
              selVars, posVars, result>>
kernelVars == <<view, pindexPrev, stakeCache, kernelCall, freshEntries>>
thrVars    == <<tpc, tloc, held>>
stakerVars == <<fEnableStaking, m_minter_thread, thrVars, caller, process, node,
                strMintWarning, chainTip, hashPrevBlock, lastHanded>>
sideVars == <<regen, stakerVars>>

\* vtx reference of the coinstake transaction.
CoinStakeRef == -1

\* --- the staker's state

\* Most staking threads a run starts.
MaxThreads == 2
\* Most changes of the active tip in a run.
MaxTipChanges == 1
\* Width of unsigned int nExtraNonce (32 in the program), scaled down.
ExtraNonceBits == 2

ThreadIds == 1..MaxThreads
CallerId == 0

\* signed: SignBlock has put the block signature into the block.
NoTemplate == [prev |-> 0, proofOfStake |-> FALSE, scriptSig |-> <<>>,
               hashMerkleRoot |-> 0, signed |-> FALSE]

\* fCalledSinceSleep: CreateNewBlock has been called since the thread's last
\* interruptNet.sleep_for.
NoLocals == [connman |-> FALSE, fNeedToClear |-> FALSE, nExtraNonce |-> 0,
             pindexPrev |-> 0, tmpl |-> NoTemplate, tipAtCheck |-> 0,
             fStakeAtCheck |-> FALSE, fCalledSinceSleep |-> FALSE,
             fPoSCancel |-> FALSE]

NoCaller == [op |-> "none", pc |-> "idle", fGenerate |-> FALSE]

\* prev: the block's hashPrevBlock; tip, fStake: the active tip and what
\* CheckProofOfStake answers at the handover; tipAtCheck, fStakeAtCheck: the
\* same when ProcessBlockFound looked, under cs_main.
NoHandover == [prev |-> 0, tip |-> 0, fStake |-> FALSE, tipAtCheck |-> 0,
               fStakeAtCheck |-> FALSE]

\* A process in which MinePoS has not been called.
StakerIdle ==
    /\ fEnableStaking = FALSE
    /\ m_minter_thread = 0
    /\ tpc = [t \in ThreadIds |-> "unborn"]
    /\ tloc = [t \in ThreadIds |-> NoLocals]
    /\ held = [o \in {CallerId} \cup ThreadIds |-> <<>>]
    /\ caller = NoCaller
    /\ process = "up"
    /\ strMintWarning = ""
    /\ hashPrevBlock = 0
    /\ lastHanded = NoHandover

\* The staker is off: no connman, no wallet activity.
StakerStart ==
    /\ StakerIdle
    /\ node = [connman |-> FALSE, staking |-> FALSE, disablePrivateKeys |-> FALSE,
               walletLocked |-> FALSE, keypool |-> FALSE, fReserve |-> FALSE,
               shutdown |-> 0, net |-> 0]
    /\ chainTip = 0

\* No block is being regenerated.
NoRegen == [n |-> -1, block |-> <<>>, once |-> <<>>]

RegenStart == regen = NoRegen

NoCand == [iter |-> 0, fUsingModified |-> FALSE, packageSize |-> 0,
           packageFees |-> 0, packageSigOpsCost |-> 0, outcome |-> "none"]

NoBlock == [nTime |-> 0, proofOfStake |-> FALSE, nHeight |-> 0,
            coinbaseVout |-> <<>>, coinbaseTime |-> 0]

NoStake == [pwallet |-> FALSE, fPoSCancel |-> FALSE, txTime |-> 0,
            nMedianTimePast |-> 0, searched |-> FALSE, created |-> FALSE]

\* ------------------------------------------------------------------------
\* BlockAssembler helpers
\* ------------------------------------------------------------------------

\* Values -blockmaxweight is configured with before clamping: below the
\* minimum, room for three weight units of four, above the maximum.
ConfiguredMaxWeights ==
    {0, COINBASE_RESERVED_WEIGHT + 3 * WITNESS_SCALE_FACTOR,
     DEFAULT_BLOCK_MAX_WEIGHT + 1000}

\* ClampOptions: std::clamp<size_t>(nBlockMaxWeight, 4000, DEFAULT_BLOCK_MAX_WEIGHT).
ClampOptions(w) == Max(COINBASE_RESERVED_WEIGHT, Min(w, DEFAULT_BLOCK_MAX_WEIGHT))

\* CFeeRate::GetFee for a rate given in satoshis per 1000 vbytes: the fee
\* of size vbytes, rounded up.
FeeRateGetFee(rate, size) == (rate * size + 999) \div 1000

\* Variant of the fee-floor test that also stops at a package paying
\* exactly the floor.
BelowFeeFloor_inclusive(packageFees, packageSize) ==
    packageFees <= FeeRateGetFee(blockMinFeeRate, packageSize)

\* The fee-floor test of addPackageTxs: true when the selection returns.
BelowFeeFloor(packageFees, packageSize) ==
    packageFees < FeeRateGetFee(blockMinFeeRate, packageSize)

\* Variant of TestPackage that adds the package's vsize, unscaled, to the
\* block weight.
TestPackage_unscaled(packageSize, packageSigOpsCost) ==
    /\ ~(nBlockWeight + packageSize >= nBlockMaxWeight)
    /\ ~(nBlockSigOpsCost + packageSigOpsCost >= MAX_BLOCK_SIGOPS_COST)

\* Variant of the give-up test that stops at MAX_CONSECUTIVE_FAILURES
\* failures.
GiveUp_atLimit(nFailed, weight) ==
    /\ nFailed >= MAX_CONSECUTIVE_FAILURES
    /\ weight > nBlockMaxWeight - CloseToFullWeight

\* Lines 503-504: close to full and no success in a while.
GiveUp(nFailed, weight) ==
    /\ nFailed > MAX_CONSECUTIVE_FAILURES
    /\ weight > nBlockMaxWeight - CloseToFullWeight

\* BlockAssembler::TestPackage.
TestPackage(packageSize, packageSigOpsCost) ==
    /\ ~(nBlockWeight + WITNESS_SCALE_FACTOR * packageSize >= nBlockMaxWeight)
    /\ ~(nBlockSigOpsCost + packageSigOpsCost >= MAX_BLOCK_SIGOPS_COST)

\* Variant of onlyUnconfirmed that keeps every ancestor.
onlyUnconfirmed_keepAll(testSet) == testSet

\* BlockAssembler::onlyUnconfirmed: drop what is already in the block.
onlyUnconfirmed(testSet) == { t \in testSet : t \notin inBlock }

\* CompareTxIterByAncestorCount: by ancestor count, then by txid.
CompareTxIterByAncestorCount(a, b) ==
    IF mapTx[a].nCountWithAncestors # mapTx[b].nCountWithAncestors
    THEN mapTx[a].nCountWithAncestors < mapTx[b].nCountWithAncestors
    ELSE a < b

\* The package in the iteration order of CTxMemPool::setEntries (by txid).
RECURSIVE InTxidOrder(_)
InTxidOrder(S) ==
    IF S = {} THEN <<>>
    ELSE LET m == CHOOSE a \in S : \A b \in S : a <= b
         IN  <<m>> \o InTxidOrder(S \ {m})

\* Variant of SortForBlock that leaves the package in txid order.
SortForBlock_byTxid(package) == InTxidOrder(package)

\* BlockAssembler::SortForBlock: the package as a sequence sorted by
\* CompareTxIterByAncestorCount.
RECURSIVE SortForBlock(_)
SortForBlock(package) ==
    IF package = {} THEN <<>>
    ELSE LET first == CHOOSE a \in package :
                          \A b \in package \ {a} : CompareTxIterByAncestorCount(a, b)
         IN  <<first>> \o SortForBlock(package \ {first})

\* A transaction's fields are read from the mempool entry's transaction
\* when a check first needs them: txData[t] holds the fields read so far
\* ("final" for IsFinalTx, "witness" for HasWitness, "nTime").
TxTimes == {ClockStart, MaxClock}

ReadField(r, f, values) == IF f \in DOMAIN r THEN {r[f]} ELSE values

WithField(r, f, v) == [x \in DOMAIN r \cup {f} |-> IF x = f THEN v ELSE r[x]]

\* Line 329: the timestamp limit, at block time nTime.
TimestampTooLate(txTime, nTime) ==
    txTime > clock \/ (nTime # 0 /\ txTime > nTime)

\* Lines 322-331 for one transaction whose fields read so far are r: the
\* possible [fields, ok], stopping at the first check that fails.
TestTransactionTime(r, nTime) ==
    { [fields |-> WithField(r, "nTime", tm), ok |-> ~TimestampTooLate(tm, nTime)] :
        tm \in ReadField(r, "nTime", TxTimes) }

TestTransactionWitness(r, nTime) ==
    IF fIncludeWitness THEN TestTransactionTime(r, nTime)
    ELSE UNION { IF w THEN { [fields |-> WithField(r, "witness", w), ok |-> FALSE] }
                 ELSE TestTransactionTime(WithField(r, "witness", w), nTime)
               : w \in ReadField(r, "witness", BOOLEAN) }

TestTransaction(r, nTime) ==
    UNION { IF ~fin THEN { [fields |-> WithField(r, "final", fin), ok |-> FALSE] }
            ELSE TestTransactionWitness(WithField(r, "final", fin), nTime)
          : fin \in ReadField(r, "final", BOOLEAN) }

\* BlockAssembler::TestPackageTransactions over the entries of list: the
\* set of possible [data, ok], data the fields read so far.
RECURSIVE TestPackageTransactions(_, _, _)
TestPackageTransactions(list, data, nTime) ==
    IF list = <<>> THEN { [data |-> data, ok |-> TRUE] }
    ELSE LET t == Head(list)
         IN  UNION { LET data2 == [data EXCEPT ![t] = o.fields]
                     IN  IF o.ok
                         THEN TestPackageTransactions(Tail(list), data2, nTime)
                         ELSE { [data |-> data2, ok |-> FALSE] }
                   : o \in TestTransaction(data[t], nTime) }

\* UpdatePackagesForAdded: every descendant, outside alreadyAdded, of an
\* added entry gets a shadow record (a new one starts from the mempool's
\* counters) with each added ancestor's size, fee and sigops subtracted.
RECURSIVE SubtractParents(_, _)
SubtractParents(e, its) ==
    IF its = {} THEN e
    ELSE LET it == CHOOSE x \in its : TRUE
         IN  SubtractParents(update_for_parent_inclusion(e, mapTx[it]), its \ {it})

\* Variant of UpdatePackagesForAdded that does not skip the descendants
\* that are in alreadyAdded.
UpdatePackagesForAdded_noSkip(alreadyAdded, modified) ==
    LET touched == UNION { CalculateDescendants(mapTx, it) : it \in alreadyAdded }
    IN  [d \in DOMAIN modified \cup touched |->
            IF d \in touched
            THEN SubtractParents(
                     IF d \in DOMAIN modified THEN modified[d]
                     ELSE CTxMemPoolModifiedEntry(mapTx[d]),
                     mapTx[d].ancestors \cap alreadyAdded)
            ELSE modified[d]]

UpdatePackagesForAdded(alreadyAdded, modified) ==
    LET descendants == UNION { CalculateDescendants(mapTx, it) : it \in alreadyAdded }
        touched     == descendants \ alreadyAdded
    IN  [d \in DOMAIN modified \cup touched |->
            IF d \in touched
            THEN SubtractParents(
                     IF d \in DOMAIN modified THEN modified[d]
                     ELSE CTxMemPoolModifiedEntry(mapTx[d]),
                     mapTx[d].ancestors \cap alreadyAdded)
            ELSE modified[d]]

\* Erase a set of entries from mapModifiedTx.
EraseModified(modified, S) == [d \in DOMAIN modified \ S |-> modified[d]]

\* BlockAssembler::AddToBlock applied to the entries of sortedEntries in
\* order, on the template and the accumulators held in st.
RECURSIVE AddToBlock(_, _)
AddToBlock(sortedEntries, st) ==
    IF sortedEntries = <<>> THEN st
    ELSE LET it == Head(sortedEntries)
             e  == mapTx[it]
         IN  AddToBlock(Tail(sortedEntries),
                 [vtx              |-> Append(st.vtx, it),
                  vTxFees          |-> Append(st.vTxFees, GetFee(e)),
                  vTxSigOpsCost    |-> Append(st.vTxSigOpsCost, GetSigOpCost(e)),
                  nBlockWeight     |-> st.nBlockWeight + GetTxWeight(e),
                  nBlockTx         |-> st.nBlockTx + 1,
                  nBlockSigOpsCost |-> st.nBlockSigOpsCost + GetSigOpCost(e),
                  nFees            |-> st.nFees + GetFee(e),
                  inBlock          |-> st.inBlock \cup {it}])

\* ------------------------------------------------------------------------
\* CreateNewBlock, first part: resetBlock, the template, the chain tip
\* ------------------------------------------------------------------------

\* MedianTimePast of the tip the call builds on.
MedianTimes == {ClockStart - 1, ClockStart + 1}

\* The assembler after startup: no template, the static search time not
\* yet initialised.
AssemblerIdle ==
    /\ ancestorScoreIndex = AncestorScoreIndex(mapTx)
    /\ txData = [t \in DOMAIN mapTx |-> <<>>]
    /\ clock = ClockStart
    /\ pc = "idle"
    /\ fIncludeWitness = FALSE
    /\ inBlock = {}
    /\ nBlockWeight = 0
    /\ nBlockSigOpsCost = 0
    /\ nBlockTx = 0
    /\ nFees = 0
    /\ vtx = <<>>
    /\ vTxFees = <<>>
    /\ vTxSigOpsCost = <<>>
    /\ block = NoBlock
    /\ mi = 1
    /\ mapModifiedTx = <<>>
    /\ failedTx = {}
    /\ nConsecutiveFailed = 0
    /\ cand = NoCand
    /\ nLastCoinStakeSearchTime = -1
    /\ m_last_coin_stake_search_interval = 0
    /\ stake = NoStake
    /\ result = "none"

\* The assembler before its first call, in a process where nothing else
\* goes on.
AssemblerStart ==
    /\ AssemblerIdle
    /\ RegenStart
    /\ StakerStart

\* A mempool of up to maxSize entries and the options of the assembler.
InitAssembler(maxSize) ==
    /\ mapTx \in Mempools(maxSize)
    /\ nBlockMaxWeight \in { ClampOptions(w) : w \in ConfiguredMaxWeights }
    /\ blockMinFeeRate \in {0, 1000}
    /\ AssemblerStart

\* Lines 141-199: resetBlock, the dummy coinbase, the tip, the block time,
\* and the entry into addPackageTxs under mempool.cs.
CreateNewBlock ==
    /\ pc = "idle"
    /\ \E segwit \in BOOLEAN :
           fIncludeWitness' = segwit
    /\ inBlock' = {}
    /\ nBlockWeight' = COINBASE_RESERVED_WEIGHT
    /\ nBlockSigOpsCost' = COINBASE_RESERVED_SIGOPS
    /\ nBlockTx' = 0
    /\ nFees' = 0
    /\ vtx' = <<0>>
    /\ vTxFees' = <<-1>>
    /\ vTxSigOpsCost' = <<-1>>
    /\ block' = [NoBlock EXCEPT !.nTime = clock, !.nHeight = TipHeight + 1]
    /\ mi' = 1
    /\ mapModifiedTx' = <<>>
    /\ failedTx' = {}
    /\ nConsecutiveFailed' = 0
    /\ cand' = NoCand
    /\ stake' = NoStake
    /\ result' = "none"
    /\ pc' = "select"
    /\ UNCHANGED <<envVars, clock, txData, nLastCoinStakeSearchTime,
                   m_last_coin_stake_search_interval>>
    /\ UNCHANGED <<kernelVars, sideVars>>

\* ------------------------------------------------------------------------
\* addPackageTxs: one action per way through one iteration of the loop
\* ------------------------------------------------------------------------

miAtEnd == mi > Len(ancestorScoreIndex)
miEntry == ancestorScoreIndex[mi]

\* while (mi != end || !mapModifiedTx.empty())
LoopCondition == ~miAtEnd \/ DOMAIN mapModifiedTx # {}

\* Lines 439-446: the mapTx entry at mi is stale or already evaluated.
miStale ==
    /\ ~miAtEnd
    /\ \/ miEntry \in DOMAIN mapModifiedTx
       \/ miEntry \in inBlock
       \/ miEntry \in failedTx

\* Lines 450-472: the best entry of mapModifiedTx and the choice between it
\* and the mapTx entry.
modit == BestByAncestorScore(DOMAIN mapModifiedTx, mapModifiedTx)

\* Variant of the choice that takes the mapTx entry whenever there is one.
fUsingModified_mapTxFirst == miAtEnd

fUsingModified ==
    IF miAtEnd THEN TRUE
    ELSE /\ DOMAIN mapModifiedTx # {}
         /\ CompareTxMemPoolEntryByAncestorFee(
                modit, mapModifiedTx[modit],
                miEntry, CTxMemPoolModifiedEntry(mapTx[miEntry]))

\* Lines 478-485: the candidate with its package's size, fees and sigops.
Package ==
    LET using == fUsingModified
        it    == IF using THEN modit ELSE miEntry
        e     == IF using THEN mapModifiedTx[it] ELSE CTxMemPoolModifiedEntry(mapTx[it])
    IN  [iter              |-> it,
         fUsingModified    |-> using,
         packageSize       |-> e.nSizeWithAncestors,
         packageFees       |-> e.nModFeesWithAncestors,
         packageSigOpsCost |-> e.nSigOpCostWithAncestors]

Evaluated(p, outcome) ==
    [iter |-> p.iter, fUsingModified |-> p.fUsingModified,
     packageSize |-> p.packageSize, packageFees |-> p.packageFees,
     packageSigOpsCost |-> p.packageSigOpsCost, outcome |-> outcome]

Evaluating == pc = "select" /\ LoopCondition /\ ~miStale

\* ++mi when the candidate came from mapTx (line 470).
miNext(p) == IF p.fUsingModified THEN mi ELSE mi + 1

\* The failure treatment of lines 493-499 and 518-521.
FailCandidate(p) ==
    IF p.fUsingModified
    THEN /\ mapModifiedTx' = EraseModified(mapModifiedTx, {p.iter})
         /\ failedTx' = failedTx \cup {p.iter}
    ELSE UNCHANGED <<mapModifiedTx, failedTx>>

\* Lines 511-514: iter and its ancestors that are not yet in the block.
PackageEntries(p) == onlyUnconfirmed(mapTx[p.iter].ancestors) \cup {p.iter}

\* Lines 439-446: ++mi; continue.
addPackageTxs_Skip ==
    /\ pc = "select"
    /\ LoopCondition
    /\ miStale
    /\ mi' = mi + 1
    /\ UNCHANGED <<envVars, clock, txData, pc, fIncludeWitness, tmplVars, block,
                   mapModifiedTx, failedTx, nConsecutiveFailed, cand,
                   posVars, result>>
    /\ UNCHANGED <<kernelVars, sideVars>>

\* Lines 487-490: the package pays less than the fee floor; return.
addPackageTxs_FeeFloor ==
    /\ Evaluating
    /\ LET p == Package
       IN  /\ BelowFeeFloor(p.packageFees, p.packageSize)
           /\ mi' = miNext(p)
           /\ cand' = Evaluated(p, "fee-floor")
    /\ pc' = "coinbase"
    /\ UNCHANGED <<envVars, clock, txData, fIncludeWitness, tmplVars, block,
                   mapModifiedTx, failedTx, nConsecutiveFailed, posVars, result>>
    /\ UNCHANGED <<kernelVars, sideVars>>

\* Lines 492-509: TestPackage fails; continue, or break when close to full
\* after too many consecutive failures.
addPackageTxs_TestPackageFails ==
    /\ Evaluating
    /\ LET p == Package
       IN  /\ ~BelowFeeFloor(p.packageFees, p.packageSize)
           /\ ~TestPackage(p.packageSize, p.packageSigOpsCost)
           /\ FailCandidate(p)
           /\ mi' = miNext(p)
           /\ nConsecutiveFailed' = nConsecutiveFailed + 1
           /\ IF GiveUp(nConsecutiveFailed + 1, nBlockWeight)
              THEN /\ pc' = "coinbase"
                   /\ cand' = Evaluated(p, "give-up")
              ELSE /\ pc' = pc
                   /\ cand' = Evaluated(p, "too-big")
    /\ UNCHANGED <<envVars, clock, txData, fIncludeWitness, tmplVars, block,
                   posVars, result>>
    /\ UNCHANGED <<kernelVars, sideVars>>

\* Lines 516-523: TestPackageTransactions fails; continue.
addPackageTxs_TransactionsFail ==
    /\ Evaluating
    /\ LET p == Package
       IN  /\ ~BelowFeeFloor(p.packageFees, p.packageSize)
           /\ TestPackage(p.packageSize, p.packageSigOpsCost)
           /\ \E o \in TestPackageTransactions(InTxidOrder(PackageEntries(p)),
                                               txData, block.nTime) :
                  /\ ~o.ok
                  /\ txData' = o.data
           /\ FailCandidate(p)
           /\ mi' = miNext(p)
           /\ cand' = Evaluated(p, "not-final")
    /\ UNCHANGED <<envVars, clock, pc, fIncludeWitness, tmplVars, block,
                   nConsecutiveFailed, posVars, result>>
    /\ UNCHANGED <<kernelVars, sideVars>>

\* Lines 525-541: the package goes in, parents first; its descendants get
\* their shadow records.
addPackageTxs_Add ==
    /\ Evaluating
    /\ LET p  == Package
           es == PackageEntries(p)
       IN  /\ ~BelowFeeFloor(p.packageFees, p.packageSize)
           /\ TestPackage(p.packageSize, p.packageSigOpsCost)
           /\ \E o \in TestPackageTransactions(InTxidOrder(es), txData, block.nTime) :
                  /\ o.ok
                  /\ txData' = o.data
           /\ LET st == AddToBlock(SortForBlock(es),
                            [vtx |-> vtx, vTxFees |-> vTxFees,
                             vTxSigOpsCost |-> vTxSigOpsCost,
                             nBlockWeight |-> nBlockWeight, nBlockTx |-> nBlockTx,
                             nBlockSigOpsCost |-> nBlockSigOpsCost, nFees |-> nFees,
                             inBlock |-> inBlock])
              IN  /\ vtx' = st.vtx
                  /\ vTxFees' = st.vTxFees
                  /\ vTxSigOpsCost' = st.vTxSigOpsCost
                  /\ nBlockWeight' = st.nBlockWeight
                  /\ nBlockTx' = st.nBlockTx
                  /\ nBlockSigOpsCost' = st.nBlockSigOpsCost
                  /\ nFees' = st.nFees
                  /\ inBlock' = st.inBlock
           /\ mapModifiedTx' =
                  UpdatePackagesForAdded(es, EraseModified(mapModifiedTx, es))
           /\ nConsecutiveFailed' = 0
           /\ mi' = miNext(p)
           /\ cand' = Evaluated(p, "added")
    /\ UNCHANGED <<envVars, clock, pc, fIncludeWitness, block, failedTx,
                   posVars, result>>
    /\ UNCHANGED <<kernelVars, sideVars>>

\* Line 425: both sources are exhausted.
addPackageTxs_End ==
    /\ pc = "select"
    /\ ~LoopCondition
    /\ pc' = "coinbase"
    /\ UNCHANGED <<envVars, clock, txData, fIncludeWitness, tmplVars, block,
                   selVars, posVars, result>>
    /\ UNCHANGED <<kernelVars, sideVars>>

\* ------------------------------------------------------------------------
\* CreateNewBlock, second part: coinbase, coinstake, header
\* ------------------------------------------------------------------------

\* GetBlockSubsidy(nHeight, consensus): the reward of a proof-of-work block.
GetBlockSubsidy(h) == 100 + h

\* GetLegacySigOpCount of the coinbase: one for each output that pays
\* scriptPubKeyIn; an empty script and a commitment script hold none.
GetLegacySigOpCount(vout) ==
    Cardinality({i \in DOMAIN vout : vout[i].scriptPubKey = "scriptPubKeyIn"})

\* The output that carries the witness commitment.
WitnessCommitment == [scriptPubKey |-> "witness-commitment", nValue |-> 0]

\* An output that carries the commitment to other witness data than the
\* block's: it has the form of a commitment, with another hash.
StaleWitnessCommitment == [scriptPubKey |-> "witness-commitment-stale", nValue |-> 0]

\* The output has the form of a witness commitment.
IsWitnessCommitment(out) ==
    out.scriptPubKey \in {WitnessCommitment.scriptPubKey,
                          StaleWitnessCommitment.scriptPubKey}

\* GetWitnessCommitmentIndex: the last output that carries a commitment, 0
\* for none (NO_WITNESS_COMMITMENT, -1, where outputs count from zero).
GetWitnessCommitmentIndex(vout) ==
    LET found == {i \in DOMAIN vout : IsWitnessCommitment(vout[i])}
    IN  IF found = {} THEN 0
        ELSE CHOOSE i \in found : \A j \in found : j <= i

\* ChainstateManager::GenerateCoinbaseCommitment on the block's coinbase: a
\* coinbase without a commitment gets one as a further output.
GenerateCoinbaseCommitment(vout) ==
    IF GetWitnessCommitmentIndex(vout) = 0 THEN Append(vout, WitnessCommitment)
    ELSE vout

\* BlockMerkleRoot of a block whose transactions after the coinbase stay as
\* they are: a hash over the coinbase's outputs, in order.
ScriptCode(script) ==
    CASE script = "scriptPubKeyIn" -> 3
      [] script = "" -> 5
      [] script = WitnessCommitment.scriptPubKey -> 7
      [] script = StaleWitnessCommitment.scriptPubKey -> 11

RECURSIVE BlockMerkleRoot(_)
BlockMerkleRoot(vout) ==
    IF vout = <<>> THEN 1
    ELSE (31 * BlockMerkleRoot(SubSeq(vout, 1, Len(vout) - 1))
            + 13 * ScriptCode(vout[Len(vout)].scriptPubKey)
            + vout[Len(vout)].nValue) % 65521

\* std::vector::erase of the element at index i, counted from one.
Erase(vout, i) == SubSeq(vout, 1, i - 1) \o SubSeq(vout, i + 1, Len(vout))

\* Line 85, tx.vout.erase(tx.vout.begin() + GetWitnessCommitmentIndex(block)):
\* the outputs it can leave. Without a commitment the iterator is
\* begin() - 1 and the erase is undefined: the process crashes, or the
\* elements are moved down by one into the memory before the vector, which
\* leaves the vector without its first element.
EraseCommitment(vout) ==
    LET i == GetWitnessCommitmentIndex(vout)
    IN  IF i # 0 THEN { [crashed |-> FALSE, vout |-> Erase(vout, i)] }
        ELSE { [crashed |-> TRUE, vout |-> vout],
               [crashed |-> FALSE, vout |-> Tail(vout)] }

\* Variant of RegenerateCommitments that erases every commitment output.
RegenerateCommitments_eraseAll(b) ==
    LET kept == SelectSeq(b.vout, LAMBDA out : ~IsWitnessCommitment(out))
        vout == GenerateCoinbaseCommitment(kept)
    IN  { [crashed |-> FALSE, vout |-> vout, hashMerkleRoot |-> BlockMerkleRoot(vout)] }

\* RegenerateCommitments: the blocks it can leave.
RegenerateCommitments(b) ==
    { IF e.crashed
      THEN [crashed |-> TRUE, vout |-> b.vout, hashMerkleRoot |-> b.hashMerkleRoot]
      ELSE LET vout == GenerateCoinbaseCommitment(e.vout)
           IN  [crashed |-> FALSE, vout |-> vout,
                hashMerkleRoot |-> BlockMerkleRoot(vout)]
      : e \in EraseCommitment(b.vout) }

\* Lines 257-259: the coinbase goes to vtx[0] and, with witness included,
\* receives the commitment.
CoinbaseOutputs(vout, witness) ==
    IF witness THEN GenerateCoinbaseCommitment(vout) ELSE vout

\* txCoinStake.nTime &= ~nStakeTimestampMask.
MaskStakeTime(t) == t - (t % (nStakeTimestampMask + 1))

\* nTime of the transaction a vtx slot refers to.
TxTime(ref, coinbaseTime, stakeTime) ==
    IF ref = 0 THEN coinbaseTime
    ELSE IF ref = CoinStakeRef THEN stakeTime
    ELSE txData[ref].nTime

\* GetMaxTransactionTime(pblock).
GetMaxTransactionTime(txs, coinbaseTime, stakeTime) ==
    LET times == { TxTime(txs[i], coinbaseTime, stakeTime) : i \in DOMAIN txs } \cup {0}
    IN  CHOOSE m \in times : \A x \in times : x <= m

\* Line 269: the header time before UpdateTime.
HeaderTime(mtp, txs, coinbaseTime, stakeTime) ==
    Max(mtp + 1, GetMaxTransactionTime(txs, coinbaseTime, stakeTime))

\* UpdateTime: the block time never moves back.
UpdateTime(nOldTime, mtp) ==
    LET nNewTime == Max(mtp + 1, clock)
    IN  IF nOldTime < nNewTime THEN nNewTime ELSE nOldTime

\* Variant of the coinbase value that leaves the fees out.
CoinbaseValue_subsidyOnly(fees, h) == GetBlockSubsidy(h)

\* Line 217: what the proof-of-work coinbase pays.
CoinbaseValue(fees, h) == fees + GetBlockSubsidy(h)

\* Variant of the coinstake test without the MedianTimePast requirement.
CoinStakeKept_anyTime(created, txTime, mtp) == created

\* Lines 238-239: the coinstake is kept when CreateCoinStake made one and
\* its time is past the tip's MedianTimePast.
CoinStakeKept(created, txTime, mtp) == created /\ txTime >= mtp + 1

\* Line 250: return nullptr.
ReturnsNull(fPoSCancel) == fPoSCancel

\* The static nLastCoinStakeSearchTime, initialised from the clock on the
\* first pass over line 223.
LastCoinStakeSearchTime ==
    IF nLastCoinStakeSearchTime = -1 THEN clock ELSE nLastCoinStakeSearchTime

\* Lines 202-218 and 256-287, without a wallet: the coinbase pays the fees
\* and the subsidy; TestBlockValidity may throw.
CreateNewBlock_ProofOfWork ==
    /\ pc = "coinbase"
    /\ \E mtp \in MedianTimes, valid \in BOOLEAN :
        LET vout == CoinbaseOutputs(
                        << [scriptPubKey |-> "scriptPubKeyIn",
                            nValue |-> CoinbaseValue(nFees, block.nHeight)] >>,
                        fIncludeWitness)
            t0 == HeaderTime(mtp, vtx, clock, 0)
        IN  /\ block' = [block EXCEPT !.coinbaseVout = vout,
                                       !.coinbaseTime = clock,
                                       !.nTime = UpdateTime(t0, mtp)]
            /\ vTxFees' = [vTxFees EXCEPT ![1] = -nFees]
            /\ vTxSigOpsCost' = [vTxSigOpsCost EXCEPT
                                   ![1] = WITNESS_SCALE_FACTOR * GetLegacySigOpCount(vout)]
            /\ stake' = [NoStake EXCEPT !.nMedianTimePast = mtp]
            /\ result' = IF valid THEN "template" ELSE "throw"
    /\ nLastCoinStakeSearchTime' = LastCoinStakeSearchTime
    /\ pc' = "done"
    /\ UNCHANGED <<envVars, clock, txData, fIncludeWitness, inBlock, nBlockWeight,
                   nBlockSigOpsCost, nBlockTx, nFees, vtx, selVars,
                   m_last_coin_stake_search_interval>>
    /\ UNCHANGED <<kernelVars, sideVars>>

\* Variant of the coinstake search that counts a search only when
\* CreateCoinStake made a coinstake.
CoinStakeSearch_successOnly(mtp, created) ==
    LET txTime      == MaskStakeTime(clock)
        searched    == txTime > LastCoinStakeSearchTime /\ created
        kept        == searched /\ CoinStakeKept(created, txTime, mtp)
    IN  [pwallet |-> TRUE, fPoSCancel |-> ~kept, txTime |-> txTime,
         nMedianTimePast |-> IF searched /\ created THEN mtp ELSE 0,
         searched |-> searched, created |-> searched /\ created]

\* Variant of the coinstake search that searches again at the time of the
\* last search.
CoinStakeSearch_sameSecond(mtp, created) ==
    LET txTime      == MaskStakeTime(clock)
        searched    == txTime >= LastCoinStakeSearchTime
        kept        == searched /\ CoinStakeKept(created, txTime, mtp)
    IN  [pwallet |-> TRUE, fPoSCancel |-> ~kept, txTime |-> txTime,
         nMedianTimePast |-> IF searched /\ created THEN mtp ELSE 0,
         searched |-> searched, created |-> searched /\ created]

\* Lines 225-249: the coinstake search. CreateCoinStake (the wallet's) finds
\* a kernel or not; txCoinStake keeps the masked time it was given.
CoinStakeSearch(mtp, created) ==
    LET txTime      == MaskStakeTime(clock)
        nSearchTime == txTime
        searched    == nSearchTime > LastCoinStakeSearchTime
        kept        == searched /\ CoinStakeKept(created, txTime, mtp)
    IN  [pwallet |-> TRUE, fPoSCancel |-> ~kept, txTime |-> txTime,
         nMedianTimePast |-> IF searched /\ created THEN mtp ELSE 0,
         searched |-> searched, created |-> searched /\ created]

\* Lines 202-212 and 220-287, with a wallet: the coinstake search, then
\* either nullptr or a proof-of-stake template.
CreateNewBlock_ProofOfStake ==
    /\ pc = "coinbase"
    /\ \E mtp \in MedianTimes, created \in BOOLEAN :
        LET s    == CoinStakeSearch(mtp, created)
            kept == ~s.fPoSCancel
            txs  == IF kept THEN <<vtx[1], CoinStakeRef>> \o Tail(vtx) ELSE vtx
            vout == CoinbaseOutputs(<< [scriptPubKey |-> "", nValue |-> 0] >>,
                                    fIncludeWitness)
        IN  /\ stake' = IF ReturnsNull(s.fPoSCancel) THEN s
                        ELSE [s EXCEPT !.nMedianTimePast = mtp]
            /\ IF s.searched
               THEN /\ m_last_coin_stake_search_interval' =
                           s.txTime - LastCoinStakeSearchTime
                    /\ nLastCoinStakeSearchTime' = s.txTime
               ELSE /\ nLastCoinStakeSearchTime' = LastCoinStakeSearchTime
                    /\ UNCHANGED m_last_coin_stake_search_interval
            /\ vtx' = txs
            /\ IF ReturnsNull(s.fPoSCancel)
               THEN /\ result' = "null"
                    /\ block' = IF kept
                                THEN [block EXCEPT !.nTime = s.txTime,
                                                   !.coinbaseTime = s.txTime]
                                ELSE block
                    /\ UNCHANGED <<vTxFees, vTxSigOpsCost>>
               ELSE /\ result' = "template"
                    /\ block' =
                         LET cbTime == IF kept THEN s.txTime ELSE clock
                         IN  [block EXCEPT
                                !.proofOfStake = TRUE,
                                !.coinbaseVout = vout,
                                !.coinbaseTime = cbTime,
                                !.nTime = HeaderTime(mtp, txs, cbTime, s.txTime)]
                    /\ vTxFees' = [vTxFees EXCEPT ![1] = -nFees]
                    /\ vTxSigOpsCost' = [vTxSigOpsCost EXCEPT
                                           ![1] = WITNESS_SCALE_FACTOR * GetLegacySigOpCount(vout)]
    /\ pc' = "done"
    /\ UNCHANGED <<envVars, clock, txData, fIncludeWitness, inBlock, nBlockWeight,
                   nBlockSigOpsCost, nBlockTx, nFees, selVars>>
    /\ UNCHANGED <<kernelVars, sideVars>>

\* ------------------------------------------------------------------------
\* Between calls
\* ------------------------------------------------------------------------

\* The template goes to the caller and the BlockAssembler is destroyed.
Return ==
    /\ pc = "done"
    /\ pc' = "idle"
    /\ fIncludeWitness' = FALSE
    /\ inBlock' = {}
    /\ nBlockWeight' = 0
    /\ nBlockSigOpsCost' = 0
    /\ nBlockTx' = 0
    /\ nFees' = 0
    /\ vtx' = <<>>
    /\ vTxFees' = <<>>
    /\ vTxSigOpsCost' = <<>>
    /\ block' = NoBlock
    /\ mi' = 1
    /\ mapModifiedTx' = <<>>
    /\ failedTx' = {}
    /\ nConsecutiveFailed' = 0
    /\ cand' = NoCand
    /\ stake' = NoStake
    /\ result' = "none"
    /\ UNCHANGED <<envVars, clock, txData, nLastCoinStakeSearchTime,
                   m_last_coin_stake_search_interval>>
    /\ UNCHANGED <<kernelVars, sideVars>>

\* A second passes outside the call.
Tick ==
    /\ pc = "idle"
    /\ clock < MaxClock
    /\ clock' = clock + 1
    /\ UNCHANGED <<envVars, txData, pc, fIncludeWitness, tmplVars, block,
                   selVars, posVars, result>>
    /\ UNCHANGED <<kernelVars, sideVars>>

\* ------------------------------------------------------------------------
\* pos.cpp: the proof-of-stake kernel
\* ------------------------------------------------------------------------

\* base_uint<BITS>: 256 bits in the program, BITS bits here, for arith_uint256
\* and for the hashes.
BITS == 16

\* Params().GetConsensus().nCoinbaseMaturity, in blocks.
nCoinbaseMaturity == 2

\* The compact form of a target: the size in bytes above a 23-bit mantissa.
Compact(nSize, nWord) == nSize * (2 ^ 24) + nWord

\* arith_uint256::SetCompact.
SetCompact(nCompact) ==
    LET nSize == nCompact \div (2 ^ 24)
        nWord == nCompact % (2 ^ 23)
    IN  IF nSize <= 3
        THEN nWord \div (2 ^ (8 * (3 - nSize)))
        ELSE ((nWord % (2 ^ BITS)) * (2 ^ (8 * (nSize - 3)))) % (2 ^ BITS)

\* arith_uint256::operator*=: the product, truncated to the width.
MulAssign(a, b) == (a * b) % (2 ^ BITS)

\* CHashWriter over (nStakeModifier, blockFromTime, prevout.hash, prevout.n,
\* nTimeTx): a fixed mixing of the serialised fields into one hash.
GetHash(nStakeModifier, blockFromTime, prevout, nTimeTx) ==
    (nStakeModifier * 40503 + blockFromTime * 12289 + prevout.hash * 30011
        + prevout.n * 7919 + nTimeTx * 52361) % (2 ^ BITS)

\* CheckStakeKernelHash (fPrintProofOfStake only logs).
CheckStakeKernelHash(pindex, nBits, blockFromTime, prevoutValue, prevout, nTimeTx) ==
    IF nTimeTx < blockFromTime THEN FALSE
    ELSE IF prevoutValue = 0 THEN FALSE
    ELSE LET bnTarget == MulAssign(SetCompact(nBits), prevoutValue)
             hashProofOfStake ==
                 GetHash(pindex.nStakeModifier, blockFromTime, prevout, nTimeTx)
         IN  ~(hashProofOfStake > bnTarget)

\* CCoinsViewCache::GetCoin: true for a coin the view holds unspent.
GetCoin(coins, prevout) == prevout \in DOMAIN coins /\ ~coins[prevout].fSpent

\* nTime of the block at a height of the active chain.
BlockTime(height) == 2 * height + 1

\* CBlockIndex::GetAncestor: the index at height on pindex's chain, or the
\* null index.
NullIndex == [nHeight |-> -1, nTime |-> 0]

GetAncestor(pindex, height) ==
    IF height > pindex.nHeight \/ height < 0 \/ ~pindex.fLoaded THEN NullIndex
    ELSE [nHeight |-> height, nTime |-> BlockTime(height)]

\* coinPrev.nTime ? coinPrev.nTime : blockFrom->nTime
CoinTime(coinPrev, blockFrom) ==
    IF coinPrev.nTime # 0 THEN coinPrev.nTime ELSE blockFrom.nTime

\* The min age requirement fails.
NotMature(pindex, coinPrev) ==
    pindex.nHeight + 1 - coinPrev.nHeight < nCoinbaseMaturity

\* Variant of CheckProofOfStake that tests the kernel before the age, the
\* block and the signature.
CheckProofOfStake_kernelFirst(pindex, tx, nBits, coins, nTimeTx) ==
    IF ~tx.fCoinStake THEN [ok |-> FALSE, reason |-> "error"]
    ELSE IF ~GetCoin(coins, tx.prevout)
    THEN [ok |-> FALSE, reason |-> "stake-prevout-not-exist"]
    ELSE LET coinPrev  == coins[tx.prevout]
             blockFrom == GetAncestor(pindex, coinPrev.nHeight)
         IN  IF ~CheckStakeKernelHash(pindex, nBits,
                                      CoinTime(coinPrev, [nTime |-> BlockTime(coinPrev.nHeight)]),
                                      coinPrev.nValue, tx.prevout, nTimeTx)
             THEN [ok |-> FALSE, reason |-> "stake-check-kernel-failed"]
             ELSE IF NotMature(pindex, coinPrev)
             THEN [ok |-> FALSE, reason |-> "stake-prevout-not-mature"]
             ELSE IF blockFrom = NullIndex
             THEN [ok |-> FALSE, reason |-> "stake-prevout-not-loaded"]
             ELSE IF ~tx.fValidSignature
             THEN [ok |-> FALSE, reason |-> "stake-verify-signature-failed"]
             ELSE [ok |-> TRUE, reason |-> ""]

\* CheckProofOfStake: the result and the reject reason left in state. tx is
\* the transaction: IsCoinStake(), vin[0].prevout and what VerifySignature
\* answers for it.
CheckProofOfStake(pindex, tx, nBits, coins, nTimeTx) ==
    IF ~tx.fCoinStake THEN [ok |-> FALSE, reason |-> "error"]
    ELSE IF ~GetCoin(coins, tx.prevout)
    THEN [ok |-> FALSE, reason |-> "stake-prevout-not-exist"]
    ELSE LET coinPrev  == coins[tx.prevout]
             blockFrom == GetAncestor(pindex, coinPrev.nHeight)
         IN  IF NotMature(pindex, coinPrev)
             THEN [ok |-> FALSE, reason |-> "stake-prevout-not-mature"]
             ELSE IF blockFrom = NullIndex
             THEN [ok |-> FALSE, reason |-> "stake-prevout-not-loaded"]
             ELSE IF ~tx.fValidSignature
             THEN [ok |-> FALSE, reason |-> "stake-verify-signature-failed"]
             ELSE IF ~CheckStakeKernelHash(pindex, nBits, CoinTime(coinPrev, blockFrom),
                                           coinPrev.nValue, tx.prevout, nTimeTx)
             THEN [ok |-> FALSE, reason |-> "stake-check-kernel-failed"]
             ELSE [ok |-> TRUE, reason |-> ""]

\* CheckKernel, lines 169-189: the prevout is not in the cache.
CheckKernelNotInCache(pindex, nBits, nTime, prevout, coins) ==
    IF ~GetCoin(coins, prevout) THEN FALSE
    ELSE LET coinPrev  == coins[prevout]
             blockFrom == GetAncestor(pindex, coinPrev.nHeight)
         IN  IF NotMature(pindex, coinPrev) THEN FALSE
             ELSE IF blockFrom = NullIndex THEN FALSE
             ELSE IF coinPrev.fSpent THEN FALSE
             ELSE CheckStakeKernelHash(pindex, nBits, CoinTime(coinPrev, blockFrom),
                                       coinPrev.nValue, prevout, nTime)

\* CheckKernel without a cache: CheckKernel over an empty one.
CheckKernelWithoutCache(pindex, nBits, nTime, prevout, coins) ==
    CheckKernelNotInCache(pindex, nBits, nTime, prevout, coins)

\* Variant of CheckKernel that trusts a cache hit.
CheckKernel_trustCache(pindex, nBits, nTime, prevout, coins, cache) ==
    IF prevout \notin DOMAIN cache
    THEN CheckKernelNotInCache(pindex, nBits, nTime, prevout, coins)
    ELSE CheckStakeKernelHash(pindex, nBits, cache[prevout].blockFromTime,
                              cache[prevout].amount, prevout, nTime)

\* CheckKernel with a cache.
CheckKernel(pindex, nBits, nTime, prevout, coins, cache) ==
    IF prevout \notin DOMAIN cache
    THEN CheckKernelNotInCache(pindex, nBits, nTime, prevout, coins)
    ELSE IF CheckStakeKernelHash(pindex, nBits, cache[prevout].blockFromTime,
                                 cache[prevout].amount, prevout, nTime)
    THEN CheckKernelWithoutCache(pindex, nBits, nTime, prevout, coins)
    ELSE FALSE

\* Variant of CacheKernel without the min age requirement.
CacheKernel_anyAge(cache, prevout, pindex, coins) ==
    IF prevout \in DOMAIN cache THEN cache
    ELSE IF ~GetCoin(coins, prevout) THEN cache
    ELSE LET coinPrev  == coins[prevout]
             blockFrom == GetAncestor(pindex, coinPrev.nHeight)
         IN  IF blockFrom = NullIndex THEN cache
             ELSE [p \in DOMAIN cache \cup {prevout} |->
                      IF p = prevout
                      THEN [blockFromTime |-> CoinTime(coinPrev, blockFrom),
                            amount |-> coinPrev.nValue]
                      ELSE cache[p]]

\* Variant of CacheKernel that stores the time of the coin's block even when
\* the coin carries a time of its own.
CacheKernel_blockTime(cache, prevout, pindex, coins) ==
    IF prevout \in DOMAIN cache THEN cache
    ELSE IF ~GetCoin(coins, prevout) THEN cache
    ELSE LET coinPrev  == coins[prevout]
             blockFrom == GetAncestor(pindex, coinPrev.nHeight)
         IN  IF NotMature(pindex, coinPrev) THEN cache
             ELSE IF blockFrom = NullIndex THEN cache
             ELSE [p \in DOMAIN cache \cup {prevout} |->
                      IF p = prevout
                      THEN [blockFromTime |-> blockFrom.nTime,
                            amount |-> coinPrev.nValue]
                      ELSE cache[p]]

\* CacheKernel: the cache after the call.
CacheKernel(cache, prevout, pindex, coins) ==
    IF prevout \in DOMAIN cache THEN cache
    ELSE IF ~GetCoin(coins, prevout) THEN cache
    ELSE LET coinPrev  == coins[prevout]
             blockFrom == GetAncestor(pindex, coinPrev.nHeight)
         IN  IF NotMature(pindex, coinPrev) THEN cache
             ELSE IF blockFrom = NullIndex THEN cache
             ELSE [p \in DOMAIN cache \cup {prevout} |->
                      IF p = prevout
                      THEN [blockFromTime |-> CoinTime(coinPrev, blockFrom),
                            amount |-> coinPrev.nValue]
                      ELSE cache[p]]

\* --- the values the kernel functions are called on

Prevouts == { [hash |-> 1, n |-> 0], [hash |-> 1, n |-> 1] }

Coins ==
    [nHeight : {1, 3}, nTime : {0, 5}, nValue : {3}, fSpent : {FALSE}]
        \cup { [nHeight |-> 1, nTime |-> 5, nValue |-> 3, fSpent |-> TRUE] }

Views == UNION { [D -> Coins] : D \in SUBSET Prevouts }

BlockIndexes == [nHeight : {3}, nStakeModifier : {1, 2}, fLoaded : BOOLEAN]

\* Targets 2^14 and 3 * 2^14 in compact form.
TargetBits == { Compact(2, 4 * (2 ^ 20)), Compact(3, 12 * (2 ^ 12)) }

KernelTimes == {4, 8}

NoCall == [op |-> "none", nBits |-> 0, blockFromTime |-> 0, prevoutValue |-> 0,
           prevout |-> [hash |-> 0, n |-> 0], nTimeTx |-> 0, fCoinStake |-> FALSE,
           fValidSignature |-> FALSE, ok |-> FALSE, reason |-> ""]

\* The kernel state of a process that is not staking.
KernelStart ==
    /\ view = <<>>
    /\ pindexPrev = [nHeight |-> 3, nStakeModifier |-> 1, fLoaded |-> TRUE]
    /\ stakeCache = <<>>
    /\ kernelCall = NoCall
    /\ freshEntries = {}

InitKernel ==
    /\ view \in Views
    /\ pindexPrev \in BlockIndexes
    /\ stakeCache = <<>>
    /\ kernelCall = NoCall
    /\ freshEntries = {}
    /\ mapTx = <<>>
    /\ nBlockMaxWeight = DEFAULT_BLOCK_MAX_WEIGHT
    /\ blockMinFeeRate = 0
    /\ AssemblerStart

NoKernelCall == kernelCall.op = "none"

Call_CheckStakeKernelHash ==
    /\ NoKernelCall
    /\ \E nBits \in TargetBits, blockFromTime \in {5, BlockTime(1)},
          prevoutValue \in {0, 1, 3, 4}, prevout \in Prevouts, nTimeTx \in KernelTimes :
           kernelCall' =
               [NoCall EXCEPT
                  !.op = "CheckStakeKernelHash", !.nBits = nBits,
                  !.blockFromTime = blockFromTime, !.prevoutValue = prevoutValue,
                  !.prevout = prevout, !.nTimeTx = nTimeTx,
                  !.ok = CheckStakeKernelHash(pindexPrev, nBits, blockFromTime,
                                              prevoutValue, prevout, nTimeTx)]
    /\ UNCHANGED <<view, pindexPrev, stakeCache, freshEntries, asmVars, sideVars>>

Call_CheckProofOfStake ==
    /\ NoKernelCall
    /\ \E nBits \in TargetBits, prevout \in Prevouts, nTimeTx \in KernelTimes,
          fCoinStake \in BOOLEAN, fValidSignature \in BOOLEAN :
        LET tx == [fCoinStake |-> fCoinStake, prevout |-> prevout,
                   fValidSignature |-> fValidSignature]
            r  == CheckProofOfStake(pindexPrev, tx, nBits, view, nTimeTx)
        IN  kernelCall' =
                [NoCall EXCEPT
                   !.op = "CheckProofOfStake", !.nBits = nBits, !.prevout = prevout,
                   !.nTimeTx = nTimeTx, !.fCoinStake = fCoinStake,
                   !.fValidSignature = fValidSignature,
                   !.ok = r.ok, !.reason = r.reason]
    /\ UNCHANGED <<view, pindexPrev, stakeCache, freshEntries, asmVars, sideVars>>

Call_CheckKernel ==
    /\ NoKernelCall
    /\ \E nBits \in TargetBits, prevout \in Prevouts, nTime \in KernelTimes :
           kernelCall' =
               [NoCall EXCEPT
                  !.op = "CheckKernel", !.nBits = nBits, !.prevout = prevout,
                  !.nTimeTx = nTime,
                  !.ok = CheckKernel(pindexPrev, nBits, nTime, prevout, view, stakeCache)]
    /\ UNCHANGED <<view, pindexPrev, stakeCache, freshEntries, asmVars, sideVars>>

Call_CheckKernelWithoutCache ==
    /\ NoKernelCall
    /\ \E nBits \in TargetBits, prevout \in Prevouts, nTime \in KernelTimes :
           kernelCall' =
               [NoCall EXCEPT
                  !.op = "CheckKernelWithoutCache", !.nBits = nBits,
                  !.prevout = prevout, !.nTimeTx = nTime,
                  !.ok = CheckKernelWithoutCache(pindexPrev, nBits, nTime, prevout, view)]
    /\ UNCHANGED <<view, pindexPrev, stakeCache, freshEntries, asmVars, sideVars>>

Call_CacheKernel ==
    /\ NoKernelCall
    /\ \E prevout \in Prevouts :
           /\ stakeCache' = CacheKernel(stakeCache, prevout, pindexPrev, view)
           /\ freshEntries' = freshEntries \cup (DOMAIN stakeCache' \ DOMAIN stakeCache)
           /\ kernelCall' = [NoCall EXCEPT !.op = "CacheKernel", !.prevout = prevout]
    /\ UNCHANGED <<view, pindexPrev, asmVars, sideVars>>

\* The call returns to its caller.
KernelReturn ==
    /\ ~NoKernelCall
    /\ kernelCall' = NoCall
    /\ UNCHANGED <<view, pindexPrev, stakeCache, freshEntries, asmVars, sideVars>>

\* A block is connected or the chain reorganises: a coin of the view is
\* spent, created or replaced while the cache keeps what it holds.
UpdateCoins ==
    /\ NoKernelCall
    /\ \E prevout \in Prevouts, coin \in Coins :
           view' = [p \in DOMAIN view \cup {prevout} |->
                       IF p = prevout THEN coin ELSE view[p]]
    /\ freshEntries' = IF view' = view THEN freshEntries ELSE {}
    /\ UNCHANGED <<pindexPrev, stakeCache, kernelCall, asmVars, sideVars>>

\* The tip changes: another stake modifier, a block index pruned or loaded.
UpdateTip ==
    /\ NoKernelCall
    /\ \E pindex \in BlockIndexes : pindexPrev' = pindex
    /\ freshEntries' = IF pindexPrev' = pindexPrev THEN freshEntries ELSE {}
    /\ UNCHANGED <<view, stakeCache, kernelCall, asmVars, sideVars>>

\* ------------------------------------------------------------------------
\* Specifications
\* ------------------------------------------------------------------------

vars == <<asmVars, kernelVars, sideVars>>

Init == InitAssembler(MaxTx) /\ KernelStart

Next ==
    \/ CreateNewBlock
    \/ addPackageTxs_Skip
    \/ addPackageTxs_FeeFloor
    \/ addPackageTxs_TestPackageFails
    \/ addPackageTxs_TransactionsFail
    \/ addPackageTxs_Add
    \/ addPackageTxs_End
    \/ CreateNewBlock_ProofOfWork
    \/ CreateNewBlock_ProofOfStake

Spec == Init /\ [][Next]_vars

\* Under SpecStake the options are fixed: the default block weight limit
\* and a minimum fee rate of one satoshi per vbyte.
InitStake ==
    /\ mapTx \in Mempools(MaxStakeTx)
    /\ nBlockMaxWeight = ClampOptions(DEFAULT_BLOCK_MAX_WEIGHT)
    /\ blockMinFeeRate = 1000
    /\ AssemblerStart
    /\ KernelStart

\* The staker's calls: each one is made with the wallet.
NextStake ==
    \/ CreateNewBlock
    \/ addPackageTxs_Skip
    \/ addPackageTxs_FeeFloor
    \/ addPackageTxs_TestPackageFails
    \/ addPackageTxs_TransactionsFail
    \/ addPackageTxs_Add
    \/ addPackageTxs_End
    \/ CreateNewBlock_ProofOfStake
    \/ Return
    \/ Tick

SpecStake == InitStake /\ [][NextStake]_vars

NextKernel ==
    \/ Call_CheckStakeKernelHash
    \/ Call_CheckProofOfStake
    \/ Call_CheckKernel
    \/ Call_CheckKernelWithoutCache
    \/ Call_CacheKernel
    \/ KernelReturn
    \/ UpdateCoins
    \/ UpdateTip

SpecKernel == InitKernel /\ [][NextKernel]_vars

\* --- RegenerateCommitments on a block

\* Largest number of outputs of the coinbase it is applied to.
MaxOutputs == 3

CoinbaseOutputSeqs ==
    UNION { [1..n -> { [scriptPubKey |-> "scriptPubKeyIn", nValue |-> 111],
                       WitnessCommitment, StaleWitnessCommitment }]
            : n \in 1..MaxOutputs }

\* Blocks with a coinbase of up to MaxOutputs outputs, whose merkle root is
\* up to date or not.
RegenBlocks ==
    UNION { { [crashed |-> FALSE, vout |-> vout, hashMerkleRoot |-> 0],
              [crashed |-> FALSE, vout |-> vout,
               hashMerkleRoot |-> BlockMerkleRoot(vout)] }
            : vout \in CoinbaseOutputSeqs }

InitRegen ==
    /\ regen \in { [n |-> 0, block |-> b, once |-> <<>>] : b \in RegenBlocks }
    /\ mapTx = <<>>
    /\ nBlockMaxWeight = DEFAULT_BLOCK_MAX_WEIGHT
    /\ blockMinFeeRate = 0
    /\ AssemblerIdle
    /\ StakerStart
    /\ KernelStart

\* RegenerateCommitments is applied to the block, up to twice.
Call_RegenerateCommitments ==
    /\ regen.n \in {0, 1}
    /\ ~regen.block.crashed
    /\ \E b \in RegenerateCommitments(regen.block) :
           regen' = [n |-> regen.n + 1, block |-> b,
                     once |-> IF regen.n = 0 THEN b ELSE regen.once]
    /\ UNCHANGED <<asmVars, kernelVars, stakerVars>>

NextRegen == Call_RegenerateCommitments

SpecRegen == InitRegen /\ [][NextRegen]_vars

\* ------------------------------------------------------------------------
\* Properties
\* ------------------------------------------------------------------------

\* The mempool entries of the template, in template order.
TemplateEntries == SelectSeq(vtx, LAMBDA ref : ref \in DOMAIN mapTx)

Returned == pc = "done" /\ result = "template"

\* C1: in every state of a call, and so in every returned template, the
\* block weight lies between the 4000 reserved for the coinbase and
\* nBlockMaxWeight, itself clamped to [4000, DEFAULT_BLOCK_MAX_WEIGHT], and
\* the sigop cost does not exceed MAX_BLOCK_SIGOPS_COST.
C1_WeightAndSigOpsWithinLimits ==
    pc # "idle" =>
        /\ COINBASE_RESERVED_WEIGHT <= nBlockMaxWeight
        /\ nBlockMaxWeight <= DEFAULT_BLOCK_MAX_WEIGHT
        /\ COINBASE_RESERVED_WEIGHT <= nBlockWeight
        /\ nBlockWeight <= nBlockMaxWeight
        /\ nBlockSigOpsCost <= MAX_BLOCK_SIGOPS_COST
        /\ nBlockWeight =
               COINBASE_RESERVED_WEIGHT + SetSum(inBlock, [t \in DOMAIN mapTx |-> mapTx[t].nTxWeight])
        /\ nBlockSigOpsCost =
               COINBASE_RESERVED_SIGOPS + SetSum(inBlock, [t \in DOMAIN mapTx |-> mapTx[t].sigOpCost])

\* C1 happens: a template is returned that holds transactions and whose
\* selection turned a package down in TestPackage.
C1_Witness ==
    /\ Returned
    /\ nBlockTx >= 2
    /\ cand.outcome \in {"too-big", "give-up"}

\* C2: every mempool transaction of the template has each of its mempool
\* ancestors at an earlier index of the template.
C2_ParentsPrecedeChildren ==
    \A i \in DOMAIN vtx :
        vtx[i] \in DOMAIN mapTx =>
            \A a \in mapTx[vtx[i]].ancestors :
                \E j \in 1..(i - 1) : vtx[j] = a

\* C2 happens: a package of a child and two ancestors went into the
\* template in one iteration.
C2_Witness ==
    /\ cand.outcome = "added"
    /\ ~cand.fUsingModified
    /\ Cardinality(mapTx[cand.iter].ancestors) >= 2
    /\ cand.iter \in inBlock

\* C3: no entry is added twice: the template holds each entry at most once,
\* and inBlock, nBlockTx and the template count the same entries.
C3_NoEntryAddedTwice ==
    /\ \A i, j \in DOMAIN vtx : vtx[i] = vtx[j] => i = j
    /\ Range(TemplateEntries) = inBlock
    /\ Len(TemplateEntries) = nBlockTx
    /\ Cardinality(inBlock) = nBlockTx

\* C3 happens: a package was added whose candidate had an ancestor in the
\* block already.
C3_Witness ==
    /\ cand.outcome = "added"
    /\ cand.fUsingModified
    /\ mapTx[cand.iter].ancestors # {}
    /\ nBlockTx >= 2

\* C4, as stated, where witness is not included and the coinbase carries no
\* commitment: a proof-of-stake template has an empty single coinbase
\* output, the coinstake at vtx[1], and the coinstake's time as block time.
C4_ProofOfStakeTemplate ==
    (Returned /\ stake.pwallet /\ ~fIncludeWitness) =>
        /\ block.coinbaseVout = << [scriptPubKey |-> "", nValue |-> 0] >>
        /\ Len(vtx) >= 2
        /\ vtx[2] = CoinStakeRef
        /\ block.nTime = stake.txTime

C6_CoinbasePaysFeesAndSubsidy ==
    (Returned /\ ~stake.pwallet) =>
        LET fees == SeqSum([i \in DOMAIN TemplateEntries |-> mapTx[TemplateEntries[i]].nFee])
        IN  /\ nFees = fees
            /\ block.coinbaseVout =
                   << [scriptPubKey |-> "scriptPubKeyIn",
                       nValue |-> fees + GetBlockSubsidy(block.nHeight)] >>
            /\ vTxFees[1] = -fees
            /\ DOMAIN mapTx = {} =>
                   /\ Len(vtx) = 1
                   /\ block.coinbaseVout[1].nValue = GetBlockSubsidy(block.nHeight)

\* C6, amended: the first output of a proof-of-work template's coinbase
\* pays scriptPubKeyIn the fees of the transactions added plus the subsidy,
\* and the coinbase pays nothing else: it is its only output when witness is
\* not included, and is followed by the witness commitment, of value zero,
\* when it is. vTxFees[0] is minus those fees; over an empty mempool the
\* template is the coinbase alone, paying the subsidy.
C6_FirstOutputPaysFeesAndSubsidy ==
    (Returned /\ ~stake.pwallet) =>
        LET fees == SeqSum([i \in DOMAIN TemplateEntries |-> mapTx[TemplateEntries[i]].nFee])
            paid == [scriptPubKey |-> "scriptPubKeyIn",
                     nValue |-> fees + GetBlockSubsidy(block.nHeight)]
        IN  /\ nFees = fees
            /\ block.coinbaseVout =
                   IF fIncludeWitness THEN <<paid, WitnessCommitment>> ELSE <<paid>>
            /\ SeqSum([i \in DOMAIN block.coinbaseVout |-> block.coinbaseVout[i].nValue])
                   = fees + GetBlockSubsidy(block.nHeight)
            /\ vTxFees[1] = -fees
            /\ DOMAIN mapTx = {} =>
                   /\ Len(vtx) = 1
                   /\ block.coinbaseVout[1].nValue = GetBlockSubsidy(block.nHeight)

\* C6 happens: a proof-of-work template that holds a prioritised
\* transaction, whose modified fee is not its fee.
C6_Witness ==
    /\ Returned
    /\ ~stake.pwallet
    /\ fIncludeWitness
    /\ \E t \in inBlock : mapTx[t].feeDelta # 0

\* C7, as stated: CheckStakeKernelHash answers true exactly when nTimeTx is
\* not before blockFromTime, the value is not zero and the hash is at most
\* the target times the value.
C7_KernelHashMeetsWeightedTarget ==
    kernelCall.op = "CheckStakeKernelHash" =>
        ( kernelCall.ok <=>
            /\ kernelCall.nTimeTx >= kernelCall.blockFromTime
            /\ kernelCall.prevoutValue # 0
            /\ GetHash(pindexPrev.nStakeModifier, kernelCall.blockFromTime,
                       kernelCall.prevout, kernelCall.nTimeTx)
                  <= SetCompact(kernelCall.nBits) * kernelCall.prevoutValue )

\* C8: whatever the cache holds, CheckKernel with the cache answers true
\* only when the view holds the coin unspent, the coin is mature, its block
\* is found and the kernel hash meets the target with the view's values.
C8_CacheNeverSufficient ==
    (kernelCall.op = "CheckKernel" /\ kernelCall.ok) =>
        LET p == kernelCall.prevout
        IN  /\ p \in DOMAIN view
            /\ ~view[p].fSpent
            /\ pindexPrev.nHeight + 1 - view[p].nHeight >= nCoinbaseMaturity
            /\ GetAncestor(pindexPrev, view[p].nHeight) # NullIndex
            /\ CheckStakeKernelHash(
                   pindexPrev, kernelCall.nBits,
                   IF view[p].nTime # 0 THEN view[p].nTime ELSE BlockTime(view[p].nHeight),
                   view[p].nValue, p, kernelCall.nTimeTx)
            /\ CheckKernelWithoutCache(pindexPrev, kernelCall.nBits, kernelCall.nTimeTx,
                                       p, view)

\* C8 happens: the cache holds values for the prevout that meet the target
\* and that the view no longer has, and CheckKernel answers false.
C8_Witness ==
    /\ kernelCall.op = "CheckKernel"
    /\ kernelCall.prevout \in DOMAIN stakeCache
    /\ CheckStakeKernelHash(pindexPrev, kernelCall.nBits,
                            stakeCache[kernelCall.prevout].blockFromTime,
                            stakeCache[kernelCall.prevout].amount,
                            kernelCall.prevout, kernelCall.nTimeTx)
    /\ ~kernelCall.ok

\* C9: CheckProofOfStake on a coinstake leaves the reject reason of the
\* first check that fails, in the order coin in the view, maturity, block
\* found, signature, kernel, and answers true only when all five pass.
C9_FirstFailingCheckReported ==
    (kernelCall.op = "CheckProofOfStake" /\ kernelCall.fCoinStake) =>
        LET p       == kernelCall.prevout
            exists  == p \in DOMAIN view /\ ~view[p].fSpent
            mature  == pindexPrev.nHeight + 1 - view[p].nHeight >= nCoinbaseMaturity
            loaded  == GetAncestor(pindexPrev, view[p].nHeight) # NullIndex
            signed  == kernelCall.fValidSignature
            kernel  == CheckStakeKernelHash(
                           pindexPrev, kernelCall.nBits,
                           IF view[p].nTime # 0 THEN view[p].nTime
                           ELSE BlockTime(view[p].nHeight),
                           view[p].nValue, p, kernelCall.nTimeTx)
        IN  /\ kernelCall.reason =
                   IF ~exists THEN "stake-prevout-not-exist"
                   ELSE IF ~mature THEN "stake-prevout-not-mature"
                   ELSE IF ~loaded THEN "stake-prevout-not-loaded"
                   ELSE IF ~signed THEN "stake-verify-signature-failed"
                   ELSE IF ~kernel THEN "stake-check-kernel-failed"
                   ELSE ""
            /\ kernelCall.ok <=> (exists /\ mature /\ loaded /\ signed /\ kernel)

\* C9 happens: an immature coin whose kernel hash meets the target, under a
\* valid signature, is rejected as not mature.
C9_Witness ==
    /\ kernelCall.op = "CheckProofOfStake"
    /\ kernelCall.fCoinStake
    /\ kernelCall.fValidSignature
    /\ kernelCall.reason = "stake-prevout-not-mature"
    /\ LET p == kernelCall.prevout
       IN  CheckStakeKernelHash(
               pindexPrev, kernelCall.nBits,
               IF view[p].nTime # 0 THEN view[p].nTime ELSE BlockTime(view[p].nHeight),
               view[p].nValue, p, kernelCall.nTimeTx)

\* C10, as stated: a package whose fee equals the minimum fee of its size
\* is not included.
C10_EqualFeeNotIncluded ==
    ( /\ cand.outcome # "none"
      /\ cand.packageFees = FeeRateGetFee(blockMinFeeRate, cand.packageSize) )
        => cand.outcome # "added"

\* C10, amended: the selection stops at a package exactly when the package
\* pays less than the minimum fee of its size; a package paying exactly
\* that fee goes on to TestPackage and the transaction checks.
C10_OnlyLowerFeeStops ==
    cand.outcome # "none" =>
        ( cand.outcome = "fee-floor"
            <=> cand.packageFees < FeeRateGetFee(blockMinFeeRate, cand.packageSize) )

\* C10 happens: under a minimum fee rate above zero, a package paying
\* exactly the minimum fee of its size is added.
C10_Witness ==
    /\ blockMinFeeRate > 0
    /\ cand.packageFees = FeeRateGetFee(blockMinFeeRate, cand.packageSize)
    /\ cand.outcome = "added"

\* ------------------------------------------------------------------------
\* C11: giving up close to full
\* ------------------------------------------------------------------------

\* Entries of the mempool that the selection has not looked at yet.
Unevaluated ==
    {ancestorScoreIndex[i] : i \in mi..Len(ancestorScoreIndex)}
        \ (inBlock \cup failedTx \cup DOMAIN mapModifiedTx)

\* The step of addPackageTxs in which TestPackage fails.
TestPackageFailed == nConsecutiveFailed' = nConsecutiveFailed + 1

\* C11, as stated: the TestPackage failure that brings the count of
\* consecutive failures to MAX_CONSECUTIVE_FAILURES, in a block within
\* CloseToFullWeight of nBlockMaxWeight, ends the selection loop.
C11_StopsAtMaxConsecutiveFailures ==
    [][ ( /\ TestPackageFailed
          /\ nConsecutiveFailed' = MAX_CONSECUTIVE_FAILURES
          /\ nBlockWeight > nBlockMaxWeight - CloseToFullWeight )
        => pc' # "select" ]_vars

\* C11, amended: a TestPackage failure ends the selection loop exactly when
\* it brings the count of consecutive failures above
\* MAX_CONSECUTIVE_FAILURES in a block within CloseToFullWeight of
\* nBlockMaxWeight; the entries not yet evaluated are left out. Only a
\* package that is added resets the count.
C11_StopsAboveMaxConsecutiveFailures ==
    [][ /\ TestPackageFailed =>
            ( pc' # "select" <=>
                /\ nConsecutiveFailed' > MAX_CONSECUTIVE_FAILURES
                /\ nBlockWeight > nBlockMaxWeight - CloseToFullWeight )
        /\ (TestPackageFailed /\ pc' # "select") =>
                /\ pc' = "coinbase"
                /\ inBlock' = inBlock
                /\ vtx' = vtx
        /\ (pc = "select" /\ nConsecutiveFailed' < nConsecutiveFailed) =>
                /\ nConsecutiveFailed' = 0
                /\ inBlock' # inBlock ]_vars

\* C11 happens: the selection gave up with entries left unevaluated.
C11_Witness ==
    /\ cand.outcome = "give-up"
    /\ pc = "coinbase"
    /\ Unevaluated # {}

\* The other side of C11 happens: more failures in a row than
\* MAX_CONSECUTIVE_FAILURES in a block that is not close to full, and the
\* selection goes on.
C11_NotCloseToFull ==
    /\ pc = "select"
    /\ cand.outcome = "too-big"
    /\ nConsecutiveFailed > MAX_CONSECUTIVE_FAILURES

\* ------------------------------------------------------------------------
\* C20: what CacheKernel inserts
\* ------------------------------------------------------------------------

\* The step in which CacheKernel is called.
CacheKernelCalled == NoKernelCall /\ kernelCall'.op = "CacheKernel"

\* C20: CacheKernel inserts an entry for the outpoint only if the view
\* holds the output, unspent and mature, and the outpoint is not cached
\* yet; the entry is the coin's time, or its block's, and its value. In
\* every other case the cache is left as it was, and the entries of other
\* outpoints are never touched.
C20_CacheKernelInsertsOnlyEligible ==
    [][ CacheKernelCalled =>
          LET p == kernelCall'.prevout
          IN  IF stakeCache' # stakeCache
              THEN /\ p \notin DOMAIN stakeCache
                   /\ p \in DOMAIN view
                   /\ ~view[p].fSpent
                   /\ pindexPrev.nHeight + 1 - view[p].nHeight >= nCoinbaseMaturity
                   /\ DOMAIN stakeCache' = DOMAIN stakeCache \cup {p}
                   /\ \A q \in DOMAIN stakeCache : stakeCache'[q] = stakeCache[q]
                   /\ stakeCache'[p].amount = view[p].nValue
                   /\ stakeCache'[p].blockFromTime =
                          IF view[p].nTime # 0 THEN view[p].nTime
                          ELSE BlockTime(view[p].nHeight)
              ELSE \/ p \in DOMAIN stakeCache
                   \/ p \notin DOMAIN view
                   \/ view[p].fSpent
                   \/ pindexPrev.nHeight + 1 - view[p].nHeight < nCoinbaseMaturity
                   \/ GetAncestor(pindexPrev, view[p].nHeight) = NullIndex ]_vars

\* C20 happens: CacheKernel has inserted one outpoint and then was called
\* on another, which the view holds but which is spent or not mature, and
\* left the cache as it was.
C20_Witness ==
    /\ kernelCall.op = "CacheKernel"
    /\ stakeCache # <<>>
    /\ kernelCall.prevout \notin DOMAIN stakeCache
    /\ kernelCall.prevout \in DOMAIN view
    /\ \/ view[kernelCall.prevout].fSpent
       \/ pindexPrev.nHeight + 1 - view[kernelCall.prevout].nHeight < nCoinbaseMaturity

\* ------------------------------------------------------------------------
\* C19: RegenerateCommitments twice
\* ------------------------------------------------------------------------

\* C19, as stated: for any block RegenerateCommitments yields a block, and
\* applied twice it yields the block, coinbase outputs and merkle root, that
\* it yields applied once.
C19_RegenerateCommitmentsIdempotent ==
    /\ regen.n >= 1 => ~regen.block.crashed
    /\ regen.n = 2 =>
          /\ regen.block.vout = regen.once.vout
          /\ regen.block.hashMerkleRoot = regen.once.hashMerkleRoot

\* What holds of RegenerateCommitments: on a block whose coinbase has one
\* commitment output it is defined, the second application changes nothing,
\* and the block carries one commitment, for its own transactions, as its
\* last output, under an up-to-date merkle root.
RegenerateCommitmentsOfOneCommitment ==
    \A b \in RegenBlocks :
        Cardinality({i \in DOMAIN b.vout : IsWitnessCommitment(b.vout[i])}) = 1 =>
            \A once \in RegenerateCommitments(b) :
                /\ ~once.crashed
                /\ RegenerateCommitments(once) = {once}
                /\ once.vout[Len(once.vout)] = WitnessCommitment
                /\ GetWitnessCommitmentIndex(once.vout) = Len(once.vout)
                /\ once.hashMerkleRoot = BlockMerkleRoot(once.vout)

\* The second application differs from the first: the coinbase had two
\* commitment outputs.
C19_TwoCommitments ==
    /\ regen.n = 2
    /\ ~regen.block.crashed
    /\ regen.block.vout # regen.once.vout

\* ------------------------------------------------------------------------
\* miner.cpp: the staking thread
\* ------------------------------------------------------------------------

strMintMessage         == "Info: Staking suspended due to locked wallet"
strMintSyncMessage     == "Info: Staking suspended while synchronizing wallet"
strMintDisabledMessage == "Info: Staking disabled by 'nostaking' option"
strMintBlockMessage    == "Info: Staking suspended due to block creation failure"

\* The locks a thread holds, as a set.
LocksOf(o) == { held[o][i] : i \in DOMAIN held[o] }

\* A RecursiveMutex can be taken by o: no other thread holds it.
LockFree(l, o) == \A other \in DOMAIN held : other # o => l \notin LocksOf(other)

Front(s) == SubSeq(s, 1, Len(s) - 1)

\* ShutdownRequested()
ShutdownRequested == node.shutdown > 0

\* A step of staking thread t that leaves the rest of the process alone.
ThreadStep(t, pcNew, locNew, heldNew, warnNew) ==
    /\ tpc' = [tpc EXCEPT ![t] = pcNew]
    /\ tloc' = [tloc EXCEPT ![t] = locNew]
    /\ held' = [held EXCEPT ![t] = heldNew]
    /\ strMintWarning' = warnNew
    /\ lastHanded' = NoHandover
    /\ UNCHANGED <<fEnableStaking, m_minter_thread, caller, process, node,
                   chainTip, hashPrevBlock>>
    /\ UNCHANGED <<asmVars, kernelVars, regen>>

\* The locals of one iteration of the staking loop die at its end.
EndIteration(loc) ==
    [loc EXCEPT !.pindexPrev = 0, !.tmpl = NoTemplate, !.tipAtCheck = 0,
                !.fStakeAtCheck = FALSE, !.fPoSCancel = FALSE]

\* PoSMiner returns and ThreadStakeMiner breaks out of its loop.
ThreadReturns(t, warnNew) == ThreadStep(t, "finished", NoLocals, <<>>, warnNew)

\* The process dies.
ProcessDies(how) ==
    /\ process' = how
    /\ UNCHANGED <<fEnableStaking, m_minter_thread, thrVars, caller, node,
                   strMintWarning, chainTip, hashPrevBlock, lastHanded>>
    /\ UNCHANGED <<asmVars, kernelVars, regen>>

\* The thread's lambda runs ThreadStakeMiner(pwallet, m_node): pwallet is the
\* parameter of MinePoS, captured by reference. While MinePoS has not
\* returned the copy is the wallet; afterwards the reference dangles and the
\* copy reads a dead object.
ThreadStakeMiner_Start(t) ==
    /\ process = "up"
    /\ tpc[t] = "spawned"
    /\ \/ ThreadStep(t, "PoSMiner", tloc[t], held[t], strMintWarning)
       \/ /\ ~(caller.op = "MinePoS" /\ caller.pc = "return" /\ m_minter_thread = t)
          /\ ProcessDies("crashed")

\* PoSMiner, lines 590-597, entered from the loop of ThreadStakeMiner.
PoSMiner_Enter(t) ==
    /\ process = "up"
    /\ tpc[t] = "PoSMiner"
    /\ ThreadStep(t, "reserve_w", [NoLocals EXCEPT !.connman = node.connman],
                  held[t], strMintWarning)

\* Variant of LOCK2 that takes cs_main first.
LOCK2_order_mainFirst == <<"cs_main", "cs_wallet">>

\* LOCK2(pwallet->cs_wallet, cs_main) at lines 603, 688 and 722: the first
\* mutex is locked, then the second.
LOCK2_order == <<"cs_wallet", "cs_main">>

PoSMiner_LOCK2(t) ==
    /\ process = "up"
    /\ \/ /\ tpc[t] \in {"reserve_w", "create_w", "sign_w"}
          /\ LockFree(LOCK2_order[1], t)
          /\ ThreadStep(t, CASE tpc[t] = "reserve_w" -> "reserve_m"
                             [] tpc[t] = "create_w"  -> "create_m"
                             [] tpc[t] = "sign_w"    -> "sign_m",
                        tloc[t], Append(held[t], LOCK2_order[1]), strMintWarning)
       \/ /\ tpc[t] \in {"reserve_m", "create_m", "sign_m"}
          /\ LockFree(LOCK2_order[2], t)
          /\ ThreadStep(t, CASE tpc[t] = "reserve_m" -> "reserve"
                             [] tpc[t] = "create_m"  -> "CreateNewBlock"
                             [] tpc[t] = "sign_m"    -> "SignBlock",
                        tloc[t], Append(held[t], LOCK2_order[2]), strMintWarning)

\* PoSMiner, lines 605-625: the reservation under the two locks, then the
\* -staking argument. The throw leaves PoSMiner (it is outside its try) and
\* is caught by ThreadStakeMiner, whose loop runs PoSMiner again.
PoSMiner_Reserve(t) ==
    /\ process = "up"
    /\ tpc[t] = "reserve"
    /\ IF ~node.fReserve
       THEN ThreadStep(t, "PoSMiner", NoLocals, <<>>, strMintWarning)
       ELSE IF ~node.staking
       THEN ThreadReturns(t, strMintDisabledMessage)
       ELSE ThreadStep(t, "while", tloc[t], <<>>, strMintWarning)

\* PoSMiner, lines 629-631.
PoSMiner_While(t) ==
    /\ process = "up"
    /\ tpc[t] = "while"
    /\ IF ~fEnableStaking \/ ShutdownRequested
       THEN ThreadReturns(t, strMintWarning)
       ELSE ThreadStep(t, "wallet", tloc[t], held[t], strMintWarning)

\* Variant of the locked-wallet loop that does not read EnableStaking().
PoSMiner_WalletLocked_noFlag(t) ==
    /\ process = "up"
    /\ tpc[t] = "wallet"
    /\ IF ~node.walletLocked
       THEN ThreadStep(t, "net", tloc[t], held[t], strMintWarning)
       ELSE IF ShutdownRequested
       THEN ThreadReturns(t, strMintWarning)
       ELSE \/ ThreadStep(t, "walletSleep", [tloc[t] EXCEPT !.fNeedToClear = TRUE],
                          held[t], strMintMessage)
            \/ /\ ~tloc[t].connman
               /\ ProcessDies("crashed")

\* PoSMiner, lines 632-640: the locked-wallet loop up to its sleep. connman
\* is dereferenced unchecked: with no connman the call is on a null pointer.
PoSMiner_WalletLocked(t) ==
    /\ process = "up"
    /\ tpc[t] = "wallet"
    /\ IF ~node.walletLocked
       THEN ThreadStep(t, "net", tloc[t], held[t], strMintWarning)
       ELSE IF ShutdownRequested \/ ~fEnableStaking
       THEN ThreadReturns(t, strMintWarning)
       ELSE \/ ThreadStep(t, "walletSleep", [tloc[t] EXCEPT !.fNeedToClear = TRUE],
                          held[t], strMintMessage)
            \/ /\ ~tloc[t].connman
               /\ ProcessDies("crashed")

\* PoSMiner, lines 646-655: the network loop up to its sleep.
PoSMiner_Network(t) ==
    /\ process = "up"
    /\ tpc[t] = "net"
    /\ IF tloc[t].connman /\ node.net > 0
       THEN ThreadStep(t, "sync", tloc[t], held[t], strMintWarning)
       ELSE IF ShutdownRequested \/ ~fEnableStaking
       THEN ThreadReturns(t, strMintWarning)
       ELSE IF ~tloc[t].connman
       THEN ThreadStep(t, "connmanSpin", tloc[t], held[t], strMintWarning)
       ELSE ThreadStep(t, "netSleep", [tloc[t] EXCEPT !.fNeedToClear = TRUE],
                       held[t], strMintSyncMessage)

\* PoSMiner, line 649: while (connman == nullptr) {UninterruptibleSleep(1s);}
\* over a local that nothing assigns.
PoSMiner_ConnmanSpin(t) ==
    /\ process = "up"
    /\ tpc[t] = "connmanSpin"
    /\ ~tloc[t].connman
    /\ ThreadStep(t, "connmanSpin", tloc[t], held[t], strMintWarning)

\* PoSMiner, lines 659-669: the synchronisation loop up to its sleep.
PoSMiner_Sync(t) ==
    /\ process = "up"
    /\ tpc[t] = "sync"
    /\ IF node.net >= 2
       THEN ThreadStep(t, "clear", tloc[t], held[t], strMintWarning)
       ELSE IF ShutdownRequested \/ ~fEnableStaking
       THEN ThreadReturns(t, strMintWarning)
       ELSE ThreadStep(t, "syncSleep", [tloc[t] EXCEPT !.fNeedToClear = TRUE],
                       held[t], strMintSyncMessage)

\* PoSMiner, lines 672-685: the warning is cleared and the tip is read,
\* without cs_main.
PoSMiner_ReadTip(t) ==
    /\ process = "up"
    /\ tpc[t] = "clear"
    /\ ThreadStep(t, "create_w",
                  [tloc[t] EXCEPT !.fNeedToClear = FALSE, !.pindexPrev = chainTip,
                                  !.tmpl = NoTemplate],
                  held[t],
                  IF tloc[t].fNeedToClear THEN "" ELSE strMintWarning)

\* connman->interruptNet.sleep_for(...): false once the net is interrupted.
\* Where the loop goes after each sleep.
\* After the sleep of line 710 PoSMiner returns whatever the sleep answers.
AfterSleep ==
    [walletSleep |-> "wallet", netSleep |-> "net", syncSleep |-> "sync",
     cancelSleep |-> "while", restSleep |-> "timioSleep", timioSleep |-> "while",
     failSleep |-> "finished"]

PoSMiner_sleep_for(t) ==
    /\ process = "up"
    /\ tpc[t] \in DOMAIN AfterSleep
    /\ \E slept \in BOOLEAN :
        /\ tloc[t].connman => (slept = (node.shutdown < 2))
        /\ IF slept /\ AfterSleep[tpc[t]] # "finished"
           THEN ThreadStep(t, AfterSleep[tpc[t]],
                           [tloc[t] EXCEPT !.fCalledSinceSleep = FALSE],
                           held[t], strMintWarning)
           ELSE ThreadReturns(t, strMintWarning)

\* --- CreateNewBlock as the staking thread runs it: its locks and its outcome

\* The locks CreateNewBlock takes: cs_main at line 159, mempool.cs at line
\* 198, and cs_wallet inside the wallet calls of lines 227-238.
Staker_CreateNewBlock_LOCK(t) ==
    /\ process = "up"
    /\ tpc[t] \in {"CreateNewBlock", "cnb_mempool", "cnb_wallet"}
    /\ LET l == CASE tpc[t] = "CreateNewBlock" -> "cs_main"
                  [] tpc[t] = "cnb_mempool"    -> "mempool.cs"
                  [] tpc[t] = "cnb_wallet"     -> "cs_wallet"
       IN  /\ LockFree(l, t)
           /\ ThreadStep(t, CASE tpc[t] = "CreateNewBlock" -> "cnb_mempool"
                              [] tpc[t] = "cnb_mempool"    -> "addPackageTxs"
                              [] tpc[t] = "cnb_wallet"     -> "CreateCoinStake",
                         [tloc[t] EXCEPT !.fCalledSinceSleep = TRUE],
                         Append(held[t], l), strMintWarning)

\* Lines 147-151: CreateNewBlock has no CBlockTemplate and returns null
\* before it touches *pfPoSCancel, which is still false.
Staker_CreateNewBlock_NoTemplate(t) ==
    /\ process = "up"
    /\ tpc[t] = "CreateNewBlock"
    /\ ThreadStep(t, "returned",
                  [tloc[t] EXCEPT !.tmpl = NoTemplate, !.fCalledSinceSleep = TRUE],
                  <<>>, strMintWarning)

\* Lines 160-200: the tip is read under cs_main, the selection runs under
\* mempool.cs, which is released at the end of its block.
Staker_addPackageTxs(t) ==
    /\ process = "up"
    /\ tpc[t] = "addPackageTxs"
    /\ ThreadStep(t, "cnb_wallet",
                  [tloc[t] EXCEPT !.tmpl = [NoTemplate EXCEPT !.prev = chainTip]],
                  Front(held[t]), strMintWarning)

\* Lines 225-280 and PoSMiner's lines 687-697: CreateNewBlock returns a
\* proof-of-stake template, returns null with fPoSCancel set, or a
\* std::runtime_error leaves it (TestBlockValidity is not called on a
\* proof-of-stake block; the error comes out of the calls into the wallet
\* and the chain) and the catch block continues the loop; the locks are
\* released as the scopes are left. From line 229 on a null template has
\* fPoSCancel set.
Staker_CreateCoinStake(t) ==
    /\ process = "up"
    /\ tpc[t] = "CreateCoinStake"
    /\ \E outcome \in {"template", "cancel", "throw"} :
        LET fPoSCancel == outcome = "cancel"
            pblocktemplate ==
                IF outcome = "template"
                THEN [prev |-> tloc[t].tmpl.prev, proofOfStake |-> TRUE,
                      scriptSig |-> <<tloc[t].tmpl.prev + 1, 0>>,
                      hashMerkleRoot |-> 0, signed |-> FALSE]
                ELSE NoTemplate
        IN  IF outcome = "throw"
            THEN ThreadStep(t, "while", EndIteration(tloc[t]), <<>>, strMintWarning)
            ELSE ThreadStep(t, "returned",
                            [tloc[t] EXCEPT !.tmpl = pblocktemplate,
                                            !.fPoSCancel = fPoSCancel],
                            <<>>, strMintWarning)

\* Variant of lines 699-714 that treats every null template as a cancelled
\* search.
PoSMiner_Template_alwaysRetry(t) ==
    /\ process = "up"
    /\ tpc[t] = "returned"
    /\ IF tloc[t].tmpl = NoTemplate
       THEN ThreadStep(t, "cancelSleep", EndIteration(tloc[t]), held[t],
                       strMintWarning)
       ELSE ThreadStep(t, "IncrementExtraNonce", tloc[t], held[t], strMintWarning)

\* PoSMiner, lines 699-714: a null template with fPoSCancel set goes to the
\* sleep of pos_timio; a null template without it posts the warning and
\* goes to the last sleep, after which PoSMiner returns.
PoSMiner_Template(t) ==
    /\ process = "up"
    /\ tpc[t] = "returned"
    /\ IF tloc[t].tmpl = NoTemplate
       THEN IF tloc[t].fPoSCancel
            THEN ThreadStep(t, "cancelSleep", EndIteration(tloc[t]), held[t],
                            strMintWarning)
            ELSE ThreadStep(t, "failSleep", EndIteration(tloc[t]), held[t],
                            strMintBlockMessage)
       ELSE ThreadStep(t, "IncrementExtraNonce", tloc[t], held[t], strMintWarning)

\* BlockMerkleRoot of a block whose coinbase has this scriptSig.
CoinbaseMerkleRoot(scriptSig) == (scriptSig[1] * 257 + scriptSig[2] * 31 + 1) % 65521

\* Variant that never resets nExtraNonce.
IncrementExtraNonce_noReset(pblock, pindexPrevHeight, nExtraNonce, staticPrev) ==
    LET nonce  == (nExtraNonce + 1) % (2 ^ ExtraNonceBits)
        scriptSig == <<pindexPrevHeight + 1, nonce>>
    IN  [hashPrevBlock |-> pblock.prev,
         nExtraNonce   |-> nonce,
         block |-> [pblock EXCEPT !.scriptSig = scriptSig,
                                  !.hashMerkleRoot = CoinbaseMerkleRoot(scriptSig)]]

\* IncrementExtraNonce: the new static hashPrevBlock, the new nExtraNonce
\* (an unsigned int) and the block.
IncrementExtraNonce(pblock, pindexPrevHeight, nExtraNonce, staticPrev) ==
    LET reset  == IF staticPrev # pblock.prev THEN 0 ELSE nExtraNonce
        nonce  == (reset + 1) % (2 ^ ExtraNonceBits)
        nHeight == pindexPrevHeight + 1
        scriptSig == <<nHeight, nonce>>
    IN  [hashPrevBlock |-> pblock.prev,
         nExtraNonce   |-> nonce,
         block |-> [pblock EXCEPT !.scriptSig = scriptSig,
                                  !.hashMerkleRoot = CoinbaseMerkleRoot(scriptSig)]]

\* PoSMiner, lines 715-719.
PoSMiner_IncrementExtraNonce(t) ==
    /\ process = "up"
    /\ tpc[t] = "IncrementExtraNonce"
    /\ LET r == IncrementExtraNonce(tloc[t].tmpl, tloc[t].pindexPrev,
                                    tloc[t].nExtraNonce, hashPrevBlock)
       IN  /\ hashPrevBlock' = r.hashPrevBlock
           /\ tloc' = [tloc EXCEPT ![t].nExtraNonce = r.nExtraNonce,
                                   ![t].tmpl = r.block]
           /\ tpc' = [tpc EXCEPT ![t] = IF r.block.proofOfStake THEN "sign_w"
                                                              ELSE "timioSleep"]
    /\ UNCHANGED <<fEnableStaking, m_minter_thread, held, caller, process, node,
                   strMintWarning, chainTip, lastHanded>>
    /\ UNCHANGED <<asmVars, kernelVars, regen>>

\* Variant that goes on to ProcessBlockFound whatever SignBlock answers.
PoSMiner_SignBlock_unchecked(t) ==
    /\ process = "up"
    /\ tpc[t] = "SignBlock"
    /\ \E signed \in BOOLEAN :
        ThreadStep(t, "ProcessBlockFound", [tloc[t] EXCEPT !.tmpl.signed = signed],
                   <<>>, strMintWarning)

\* PoSMiner, lines 722-728: SignBlock under the two locks.
PoSMiner_SignBlock(t) ==
    /\ process = "up"
    /\ tpc[t] = "SignBlock"
    /\ \E signed \in BOOLEAN :
        IF signed
        THEN ThreadStep(t, "ProcessBlockFound", [tloc[t] EXCEPT !.tmpl.signed = TRUE],
                        <<>>, strMintWarning)
        ELSE ThreadStep(t, "while", EndIteration(tloc[t]), <<>>, strMintWarning)

\* The coinstake of the blocks the wallet signs, and their nBits.
StakePrevout == [hash |-> 1, n |-> 0]
StakeTime == 8
StakeBits == Compact(2, 4 * (2 ^ 20))
StakerView == (StakePrevout :> [nHeight |-> 1, nTime |-> 5, nValue |-> 3, fSpent |-> FALSE])

\* m_node.chainman->BlockIndex()[hash]
BlockIndex(hash) == [nHeight |-> hash, nStakeModifier |-> 1, fLoaded |-> TRUE]

\* The CheckProofOfStake call of line 572 on a block that builds on prev.
StakeChecks(prev, coins) ==
    CheckProofOfStake(BlockIndex(prev),
                      [fCoinStake |-> TRUE, prevout |-> StakePrevout,
                       fValidSignature |-> TRUE],
                      StakeBits, coins, StakeTime).ok

\* ProcessBlockFound, line 570.
ProcessBlockFound_LOCK(t) ==
    /\ process = "up"
    /\ tpc[t] = "ProcessBlockFound"
    /\ LockFree("cs_main", t)
    /\ ThreadStep(t, "pbf_check", tloc[t], Append(held[t], "cs_main"), strMintWarning)

\* Variant that hands the block over without the stale check.
ProcessBlockFound_Check_noStale(t) ==
    /\ process = "up"
    /\ tpc[t] = "pbf_check"
    /\ IF ~StakeChecks(tloc[t].tmpl.prev, view)
       THEN ThreadStep(t, "restSleep", EndIteration(tloc[t]), <<>>, strMintWarning)
       ELSE ThreadStep(t, "ProcessNewBlock",
                       [tloc[t] EXCEPT !.tipAtCheck = chainTip,
                                       !.fStakeAtCheck = StakeChecks(tloc[t].tmpl.prev, view)],
                       <<>>, strMintWarning)

\* ProcessBlockFound, lines 571-577: the two checks under cs_main, which is
\* released at the end of the block.
ProcessBlockFound_Check(t) ==
    /\ process = "up"
    /\ tpc[t] = "pbf_check"
    /\ IF ~StakeChecks(tloc[t].tmpl.prev, view)
       THEN ThreadStep(t, "restSleep", EndIteration(tloc[t]), <<>>, strMintWarning)
       ELSE IF tloc[t].tmpl.prev # chainTip
       THEN ThreadStep(t, "restSleep", EndIteration(tloc[t]), <<>>, strMintWarning)
       ELSE ThreadStep(t, "ProcessNewBlock",
                       [tloc[t] EXCEPT !.tipAtCheck = chainTip,
                                       !.fStakeAtCheck = StakeChecks(tloc[t].tmpl.prev, view)],
                       <<>>, strMintWarning)

\* ProcessBlockFound, lines 580-584: the block is handed to ProcessNewBlock,
\* with no lock held.
ProcessBlockFound_ProcessNewBlock(t) ==
    /\ process = "up"
    /\ tpc[t] = "ProcessNewBlock"
    /\ lastHanded' = [prev |-> tloc[t].tmpl.prev, tip |-> chainTip,
                      fStake |-> StakeChecks(tloc[t].tmpl.prev, view),
                      tipAtCheck |-> tloc[t].tipAtCheck,
                      fStakeAtCheck |-> tloc[t].fStakeAtCheck]
    /\ tpc' = [tpc EXCEPT ![t] = "restSleep"]
    /\ tloc' = [tloc EXCEPT ![t] = EndIteration(tloc[t])]
    /\ UNCHANGED <<fEnableStaking, m_minter_thread, held, caller, process,
                   node, strMintWarning, chainTip, hashPrevBlock>>
    /\ UNCHANGED <<asmVars, kernelVars, regen>>

\* One step of staking thread t.
ThreadNext(t) ==
    \/ ThreadStakeMiner_Start(t)
    \/ PoSMiner_Enter(t)
    \/ PoSMiner_LOCK2(t)
    \/ PoSMiner_Reserve(t)
    \/ PoSMiner_While(t)
    \/ PoSMiner_WalletLocked(t)
    \/ PoSMiner_Network(t)
    \/ PoSMiner_ConnmanSpin(t)
    \/ PoSMiner_Sync(t)
    \/ PoSMiner_ReadTip(t)
    \/ PoSMiner_sleep_for(t)
    \/ Staker_CreateNewBlock_LOCK(t)
    \/ Staker_CreateNewBlock_NoTemplate(t)
    \/ Staker_addPackageTxs(t)
    \/ Staker_CreateCoinStake(t)
    \/ PoSMiner_Template(t)
    \/ PoSMiner_IncrementExtraNonce(t)
    \/ PoSMiner_SignBlock(t)
    \/ ProcessBlockFound_LOCK(t)
    \/ ProcessBlockFound_Check(t)
    \/ ProcessBlockFound_ProcessNewBlock(t)

\* --- MinePoS, InterruptStaking, StopStaking: called one at a time

\* A step of the caller.
CallerStep(callerNew, heldNew, flagNew, minterNew, tpcNew, processNew) ==
    /\ caller' = callerNew
    /\ held' = [held EXCEPT ![CallerId] = heldNew]
    /\ fEnableStaking' = flagNew
    /\ m_minter_thread' = minterNew
    /\ tpc' = tpcNew
    /\ process' = processNew
    /\ UNCHANGED <<tloc, node, strMintWarning, chainTip, hashPrevBlock, lastHanded>>
    /\ UNCHANGED <<asmVars, kernelVars, regen>>

\* MinePoS, line 769: WITH_LOCK(pwallet->cs_wallet, ...) is entered.
MinePoS_Call ==
    /\ process = "up"
    /\ caller = NoCaller
    /\ \E t \in ThreadIds : tpc[t] = "unborn"
    /\ LockFree("cs_wallet", CallerId)
    /\ \E fGenerate \in BOOLEAN :
        CallerStep([op |-> "MinePoS", pc |-> "keypool", fGenerate |-> fGenerate],
                   <<"cs_wallet">>, fEnableStaking, m_minter_thread, tpc, process)

\* MinePoS, lines 769-784. The std::thread is constructed, and runs, before
\* it is move-assigned to m_minter_thread; the assignment to a joinable
\* std::thread calls std::terminate.
MinePoS_Body ==
    /\ process = "up"
    /\ caller.op = "MinePoS" /\ caller.pc = "keypool"
    /\ IF ~node.keypool
       THEN CallerStep(NoCaller, <<>>, FALSE, m_minter_thread, tpc, process)
       ELSE IF ~caller.fGenerate \/ node.disablePrivateKeys
       THEN CallerStep(NoCaller, <<>>, FALSE, m_minter_thread, tpc, process)
       ELSE IF ~fEnableStaking
       THEN LET t == CHOOSE u \in ThreadIds :
                        /\ tpc[u] = "unborn"
                        /\ \A v \in ThreadIds : tpc[v] = "unborn" => u <= v
                started == [tpc EXCEPT ![t] = "spawned"]
            IN  IF m_minter_thread # 0
                THEN CallerStep(caller, <<>>, TRUE, m_minter_thread, started, "terminated")
                ELSE CallerStep([caller EXCEPT !.pc = "return"], <<>>, TRUE, t,
                                started, process)
       ELSE CallerStep(NoCaller, <<>>, fEnableStaking, m_minter_thread, tpc, process)

\* Variant of MinePoS that starts a thread only over a std::thread that is
\* not joinable.
MinePoS_Body_guarded ==
    /\ process = "up"
    /\ caller.op = "MinePoS" /\ caller.pc = "keypool"
    /\ IF ~node.keypool
       THEN CallerStep(NoCaller, <<>>, FALSE, m_minter_thread, tpc, process)
       ELSE IF ~caller.fGenerate \/ node.disablePrivateKeys
       THEN CallerStep(NoCaller, <<>>, FALSE, m_minter_thread, tpc, process)
       ELSE IF ~fEnableStaking /\ m_minter_thread = 0
       THEN LET t == CHOOSE u \in ThreadIds :
                        /\ tpc[u] = "unborn"
                        /\ \A v \in ThreadIds : tpc[v] = "unborn" => u <= v
            IN  CallerStep([caller EXCEPT !.pc = "return"], <<>>, TRUE, t,
                           [tpc EXCEPT ![t] = "spawned"], process)
       ELSE CallerStep(NoCaller, <<>>, fEnableStaking, m_minter_thread, tpc, process)

\* MinePoS returns after it started a thread: its parameters die.
MinePoS_Return ==
    /\ process = "up"
    /\ caller.op = "MinePoS" /\ caller.pc = "return"
    /\ CallerStep(NoCaller, held[CallerId], fEnableStaking, m_minter_thread, tpc, process)

\* InterruptStaking, lines 789-792, up to the join.
InterruptStaking_Call ==
    /\ process = "up"
    /\ caller = NoCaller
    /\ CallerStep(IF m_minter_thread # 0
                  THEN [NoCaller EXCEPT !.op = "InterruptStaking", !.pc = "join"]
                  ELSE NoCaller,
                  held[CallerId], FALSE, m_minter_thread, tpc, process)

\* StopStaking, lines 800-802, up to the join.
StopStaking_Call ==
    /\ process = "up"
    /\ caller = NoCaller
    /\ m_minter_thread # 0
    /\ CallerStep([NoCaller EXCEPT !.op = "StopStaking", !.pc = "join"],
                  held[CallerId], fEnableStaking, m_minter_thread, tpc, process)

\* m_minter_thread.join() returns, lines 793 and 803: the thread has ended.
Join ==
    /\ process = "up"
    /\ caller.pc = "join"
    /\ tpc[m_minter_thread] = "finished"
    /\ CallerStep(NoCaller, held[CallerId], fEnableStaking, 0, tpc, process)

\* --- what the rest of the node does meanwhile

\* A change of the node around the staker.
NodeStep(nodeNew, tipNew, viewNew) ==
    /\ node' = nodeNew
    /\ chainTip' = tipNew
    /\ view' = viewNew
    /\ freshEntries' = IF viewNew = view THEN freshEntries ELSE {}
    /\ UNCHANGED <<fEnableStaking, m_minter_thread, thrVars, caller, process,
                   strMintWarning, hashPrevBlock, lastHanded>>
    /\ UNCHANGED <<asmVars, pindexPrev, stakeCache, kernelCall, regen>>

\* The wallet is locked, or unlocked.
Wallet_LockOrUnlock ==
    /\ process = "up"
    /\ NodeStep([node EXCEPT !.walletLocked = ~node.walletLocked], chainTip, view)

\* Peers connect or leave, initial block download ends, verification
\* progresses: 0 no peer or initial block download, 1 progress below 0.996,
\* 2 synchronised.
Network_Change ==
    /\ process = "up"
    /\ \E n \in 0..2 :
        /\ n # node.net
        /\ NodeStep([node EXCEPT !.net = n], chainTip, view)

\* StartShutdown() (1), then CConnman::Interrupt() (2).
Shutdown_Step ==
    /\ process = "up"
    /\ node.shutdown < 2
    /\ NodeStep([node EXCEPT !.shutdown = node.shutdown + 1], chainTip, view)

\* A block is connected, under cs_main; it may spend the staked output.
ActivateBestChain ==
    /\ process = "up"
    /\ chainTip < TipHeight + MaxTipChanges
    /\ LockFree("cs_main", MaxThreads + 1)
    /\ \E fSpent \in BOOLEAN :
        NodeStep(node, chainTip + 1,
                 [view EXCEPT ![StakePrevout].fSpent = @ \/ fSpent])

\* A node about to stake: the wallet and the network in any state. keypool
\* is whether GetKeyPoolSize() is not zero, fReserve whether
\* GetReservedDestination(true) finds a key.
Nodes == [connman : BOOLEAN, staking : BOOLEAN, disablePrivateKeys : BOOLEAN,
          walletLocked : BOOLEAN, keypool : BOOLEAN, fReserve : BOOLEAN,
          shutdown : {0}, net : 0..2]

InitStaker ==
    /\ StakerIdle
    /\ node \in Nodes
    /\ chainTip = TipHeight
    /\ view = StakerView
    /\ pindexPrev = BlockIndex(TipHeight)
    /\ stakeCache = <<>>
    /\ kernelCall = NoCall
    /\ freshEntries = {}
    /\ mapTx = <<>>
    /\ nBlockMaxWeight = DEFAULT_BLOCK_MAX_WEIGHT
    /\ blockMinFeeRate = 0
    /\ AssemblerIdle
    /\ RegenStart

NextStaker ==
    \/ \E t \in ThreadIds : ThreadNext(t)
    \/ MinePoS_Call
    \/ MinePoS_Body
    \/ MinePoS_Return
    \/ InterruptStaking_Call
    \/ StopStaking_Call
    \/ Join
    \/ Wallet_LockOrUnlock
    \/ Network_Change
    \/ Shutdown_Step
    \/ ActivateBestChain

SpecStaker == InitStaker /\ [][NextStaker]_vars

\* The scheduler runs every thread that can take a step; a sleep ends.
SpecStakerFair == SpecStaker /\ \A t \in ThreadIds : WF_vars(ThreadNext(t))

\* Where PoSMiner is between the head of the staking loop and the end of the
\* locked-wallet loop.
LockedWalletLoop == {"while", "wallet", "walletSleep"}

\* C12: while the wallet is locked, a staking thread that is at the head of
\* the staking loop or in the locked-wallet loop stays there or returns: it
\* does not reach CreateNewBlock and hands no block over; when it goes to
\* sleep the locked-wallet warning is posted; and once enableStaking is false
\* the step it takes after waking up (the test of line 633) returns.
C12_LockedWalletSuspendsStaking ==
    [][\A t \in ThreadIds :
        (node.walletLocked /\ tpc[t] \in LockedWalletLoop)
            => /\ tpc'[t] \in LockedWalletLoop \cup {"finished"}
               /\ lastHanded' = NoHandover
               /\ tpc'[t] = "walletSleep" => strMintWarning' = strMintMessage
               /\ (tpc[t] = "wallet" /\ ~fEnableStaking /\ tpc'[t] # "wallet")
                      => tpc'[t] = "finished"]_vars

\* A thread sleeps in the locked-wallet loop, the warning posted, and
\* enableStaking has become false.
C12_Witness ==
    \E t \in ThreadIds :
        /\ tpc[t] = "walletSleep"
        /\ node.walletLocked
        /\ strMintWarning = strMintMessage
        /\ ~fEnableStaking
        /\ process = "up"

\* InterruptStaking has set enableStaking to false and waits in join() for
\* thread t.
Interrupted(t) ==
    /\ caller.op = "InterruptStaking"
    /\ caller.pc = "join"
    /\ m_minter_thread = t
    /\ process = "up"

\* C13: once InterruptStaking has set enableStaking to false and joins the
\* staking thread, the thread eventually ends (or the process does), so the
\* join returns.
C13_InterruptedThreadTerminates ==
    \A t \in ThreadIds : Interrupted(t) ~> (tpc[t] = "finished" \/ process # "up")

\* The keypool reservation of line 605 fails in this step of thread t.
KeypoolRanOut(t) == tpc[t] = "reserve" /\ ~node.fReserve /\ tpc'[t] # "reserve"

\* C14: when the keypool reservation at the start of PoSMiner fails, the
\* staker is disabled (enableStaking is false afterwards) and the thread
\* ends: ThreadStakeMiner does not run PoSMiner again.
C14_KeypoolRanOutDisablesStaker ==
    [][\A t \in ThreadIds :
        KeypoolRanOut(t) => (~fEnableStaking' /\ tpc'[t] = "finished")]_vars

\* The threads that were started and have not ended.
Alive == { t \in ThreadIds : tpc[t] \notin {"unborn", "finished"} }

\* C15: at most one staking thread is alive at any time, and MinePoS never
\* assigns a thread to m_minter_thread while it is joinable (the assignment
\* that ends the process in std::terminate).
C15_AtMostOneStakingThread ==
    /\ Cardinality(Alive) <= 1
    /\ process # "terminated"

\* The place of each lock in the order wallet, chain, mempool.
LockRank == [cs_wallet |-> 1, cs_main |-> 2] @@ ("mempool.cs" :> 3)

\* Owner o takes lock l in this step.
Acquires(o, l) == held'[o] = Append(held[o], l)

\* C16: every lock a thread takes that it does not hold already comes after
\* all the locks it holds in the order cs_wallet, cs_main, mempool.cs: none
\* takes cs_wallet while it holds cs_main or mempool.cs and not cs_wallet,
\* none takes cs_main while it holds mempool.cs and not cs_main.
C16_LockOrder ==
    [][\A o \in DOMAIN held : \A l \in DOMAIN LockRank :
        (Acquires(o, l) /\ l \notin LocksOf(o))
            => \A h \in LocksOf(o) : LockRank[h] < LockRank[l]]_vars

\* CreateNewBlock, called under cs_wallet and cs_main, has taken cs_main
\* again, has held mempool.cs, and holds cs_wallet again for the wallet calls.
C16_Witness ==
    \E t \in ThreadIds :
        /\ tpc[t] = "CreateCoinStake"
        /\ held[t] = <<"cs_wallet", "cs_main", "cs_main", "cs_wallet">>

\* A block is being handed to ProcessNewBlock.
HandedOver == lastHanded # NoHandover

\* C17, as stated: a block is handed to ProcessNewBlock only if, at the
\* handover, CheckProofOfStake succeeds against the coins of the tip and the
\* block's hashPrevBlock is the active tip.
C17_HandsOverOnlyBlocksOnTheTip ==
    HandedOver => (lastHanded.fStake /\ lastHanded.prev = lastHanded.tip)

\* C17, amended: a block is handed to ProcessNewBlock only if CheckProofOfStake
\* succeeded and the block's hashPrevBlock was the active tip when
\* ProcessBlockFound looked, under cs_main.
C17_HandsOverOnlyBlocksCheckedOnTheTip ==
    HandedOver => (lastHanded.fStakeAtCheck /\ lastHanded.prev = lastHanded.tipAtCheck)

\* A block is handed over after the tip has moved on since the check.
C17_Witness == HandedOver /\ lastHanded.tip # lastHanded.tipAtCheck

\* Thread t runs IncrementExtraNonce in this step.
IncrementsExtraNonce(t) ==
    tpc[t] = "IncrementExtraNonce" /\ tpc'[t] # "IncrementExtraNonce"

\* C18: a call of IncrementExtraNonce on a block with the hashPrevBlock of
\* the previous call adds 1 to nExtraNonce (in unsigned arithmetic); a call on
\* a block with another hashPrevBlock leaves it 1; the coinbase scriptSig
\* becomes push(pindexPrev height + 1), push(nExtraNonce), and the merkle root
\* is the root of the block with that coinbase.
C18_IncrementExtraNonce ==
    [][\A t \in ThreadIds :
        IncrementsExtraNonce(t) =>
            LET before == tloc[t]
                after  == tloc'[t]
            IN  /\ hashPrevBlock = before.tmpl.prev
                    => after.nExtraNonce = (before.nExtraNonce + 1) % (2 ^ ExtraNonceBits)
                /\ hashPrevBlock # before.tmpl.prev => after.nExtraNonce = 1
                /\ hashPrevBlock' = before.tmpl.prev
                /\ after.tmpl.scriptSig = <<before.pindexPrev + 1, after.nExtraNonce>>
                /\ after.tmpl.hashMerkleRoot = CoinbaseMerkleRoot(after.tmpl.scriptSig)
                /\ after.tmpl.hashMerkleRoot # before.tmpl.hashMerkleRoot
                /\ after.tmpl.prev = before.tmpl.prev]_vars

\* Two calls on blocks with the same hashPrevBlock have left nExtraNonce 2,
\* in the scriptSig too.
C18_Witness ==
    \E t \in ThreadIds :
        /\ tpc[t] = "sign_w"
        /\ tloc[t].nExtraNonce = 2
        /\ tloc[t].tmpl.scriptSig = <<tloc[t].pindexPrev + 1, 2>>
        /\ hashPrevBlock = tloc[t].tmpl.prev

\* ------------------------------------------------------------------------
\* C21: the template's parallel arrays
\* ------------------------------------------------------------------------

\* CreateNewBlock has returned a template.
TemplateReturned == pc = "done" /\ result = "template"

\* vTxFees and vTxSigOpsCost are parallel to vtx: the same length, entry 0
\* as lines 260 and 273 leave it for the coinbase, entry i the fee and the
\* sigop cost of the mempool entry at vtx[i].
ParallelArrays ==
    /\ Len(vTxFees) = Len(vtx)
    /\ Len(vTxSigOpsCost) = Len(vtx)
    /\ vtx[1] = 0
    /\ vTxFees[1] = -nFees
    /\ vTxSigOpsCost[1] = WITNESS_SCALE_FACTOR * GetLegacySigOpCount(block.coinbaseVout)
    /\ \A i \in 2..Len(vtx) :
           vtx[i] # CoinStakeRef =>
               /\ vTxFees[i] = GetFee(mapTx[vtx[i]])
               /\ vTxSigOpsCost[i] = GetSigOpCost(mapTx[vtx[i]])

\* C21: in every template CreateNewBlock returns, proof-of-work or
\* proof-of-stake, vTxFees and vTxSigOpsCost are parallel to block.vtx: the
\* same length, entry i the fee and sigop cost of vtx[i], index 0 for the
\* coinbase.
C21_ParallelArrays == TemplateReturned => ParallelArrays

\* The arrays of a proof-of-work template are parallel to its vtx.
ProofOfWorkParallelArrays ==
    (TemplateReturned /\ ~block.proofOfStake) => ParallelArrays

\* A proof-of-stake template with a mempool transaction: the coinstake is at
\* vtx[1] and the arrays are one entry short, so the entry at index 1 is that
\* of the transaction at vtx[2].
ProofOfStakeArraysShifted ==
    /\ TemplateReturned
    /\ block.proofOfStake
    /\ Len(vtx) = 3
    /\ vtx[2] = CoinStakeRef
    /\ Len(vTxFees) = 2
    /\ Len(vTxSigOpsCost) = 2
    /\ vTxFees[2] = GetFee(mapTx[vtx[3]])

\* ------------------------------------------------------------------------
\* C22-C24: the staking loop around CreateNewBlock
\* ------------------------------------------------------------------------

\* Thread t is at its call of CreateNewBlock, the two locks of line 688 held.
CallsCreateNewBlock(t) == tpc[t] = "CreateNewBlock"

\* C22: when CreateNewBlock throws a runtime error the loop sleeps pos_timio
\* before the next block-creation attempt; two CreateNewBlock calls are never
\* made back to back without an interruptible sleep in between.
C22_SleepBetweenCreateNewBlockCalls ==
    \A t \in ThreadIds : CallsCreateNewBlock(t) => ~tloc[t].fCalledSinceSleep

\* The step in which a std::runtime_error leaves CreateNewBlock takes the
\* thread to a sleep.
ThrowLeadsToSleep ==
    [][\A t \in ThreadIds :
        (tpc[t] = "CreateCoinStake" /\ tpc'[t] \notin {"CreateCoinStake", "returned"})
            => tpc'[t] \in DOMAIN AfterSleep]_vars

\* Thread t leaves position p in this step.
Leaves(t, p) == tpc[t] = p /\ tpc'[t] # p

\* The positions of a thread that signs or submits a block.
SigningOrSubmitting ==
    {"sign_w", "sign_m", "SignBlock", "ProcessBlockFound", "pbf_check",
     "ProcessNewBlock"}

\* C23: a null template with the cancel flag set makes the loop sleep
\* pos_timio and retry (or return, when the sleep is interrupted) without
\* signing or submitting anything; a null template with the cancel flag clear
\* makes the loop post the block-creation-failure warning, sleep once, and
\* leave PoSMiner with no further CreateNewBlock call.
C23_NullTemplate ==
    [][\A t \in ThreadIds :
        /\ (Leaves(t, "returned") /\ tloc[t].tmpl = NoTemplate /\ tloc[t].fPoSCancel)
              => /\ tpc'[t] = "cancelSleep"
                 /\ strMintWarning' = strMintWarning
                 /\ lastHanded' = NoHandover
        /\ Leaves(t, "cancelSleep") => tpc'[t] \in {"while", "finished"}
        /\ (Leaves(t, "returned") /\ tloc[t].tmpl = NoTemplate /\ ~tloc[t].fPoSCancel)
              => /\ tpc'[t] = "failSleep"
                 /\ strMintWarning' = strMintBlockMessage
                 /\ lastHanded' = NoHandover
        /\ Leaves(t, "failSleep") => tpc'[t] = "finished"
        /\ tpc[t] = "finished" => tpc'[t] = "finished"
        /\ tpc[t] \in SigningOrSubmitting => tloc[t].tmpl # NoTemplate]_vars

\* A thread sleeps for the last time after a null template without the
\* cancel flag, the warning posted.
C23_Witness ==
    \E t \in ThreadIds : tpc[t] = "failSleep" /\ strMintWarning = strMintBlockMessage

\* A thread sleeps pos_timio after a cancelled search.
CancelledSearchSleeps ==
    \E t \in ThreadIds : tpc[t] = "cancelSleep" /\ tloc[t].fCalledSinceSleep

\* IncrementExtraNonce has run on the template of thread t: the coinbase
\* carries the height and the extra nonce, and the merkle root is that of the
\* block with this coinbase.
ExtraNonceSet(t) ==
    /\ tloc[t].tmpl.scriptSig = <<tloc[t].pindexPrev + 1, tloc[t].nExtraNonce>>
    /\ tloc[t].tmpl.hashMerkleRoot = CoinbaseMerkleRoot(tloc[t].tmpl.scriptSig)

\* C24: for every non-null template the steps occur in the order
\* IncrementExtraNonce, SignBlock, ProcessBlockFound; ProcessBlockFound is
\* called only for a proof-of-stake block that SignBlock signed, and a block
\* whose signing failed is never submitted.
C24_IncrementSignSubmit ==
    [][\A t \in ThreadIds :
        /\ (Leaves(t, "returned") /\ tloc[t].tmpl # NoTemplate)
              => tpc'[t] = "IncrementExtraNonce"
        /\ Leaves(t, "IncrementExtraNonce")
              => tpc'[t] = IF tloc'[t].tmpl.proofOfStake THEN "sign_w" ELSE "timioSleep"
        /\ tpc[t] \in {"sign_w", "sign_m", "SignBlock"}
              => /\ ExtraNonceSet(t)
                 /\ tloc[t].tmpl.proofOfStake
                 /\ ~tloc[t].tmpl.signed
        /\ Leaves(t, "SignBlock")
              => IF tloc'[t].tmpl.signed
                 THEN tpc'[t] = "ProcessBlockFound"
                 ELSE tpc'[t] = "while" /\ lastHanded' = NoHandover
        /\ tpc[t] \in {"ProcessBlockFound", "pbf_check", "ProcessNewBlock"}
              => /\ ExtraNonceSet(t)
                 /\ tloc[t].tmpl.proofOfStake
                 /\ tloc[t].tmpl.signed
        /\ (lastHanded' # NoHandover /\ lastHanded' # lastHanded)
              => \E u \in ThreadIds : Leaves(u, "ProcessNewBlock") /\ tloc[u].tmpl.signed]_vars

\* A signed proof-of-stake block, its extra nonce set, is about to be handed
\* to ProcessNewBlock.
C24_Witness ==
    \E t \in ThreadIds :
        /\ tpc[t] = "ProcessNewBlock"
        /\ tloc[t].tmpl.signed
        /\ tloc[t].tmpl.proofOfStake
        /\ ExtraNonceSet(t)
        /\ tloc[t].nExtraNonce = 1

\* ------------------------------------------------------------------------
\* C25, C26: the coinstake search times
\* ------------------------------------------------------------------------

\* CreateNewBlock, called with a wallet, returns in this step.
ReturnsWithWallet == pc = "coinbase" /\ pc' = "done" /\ stake'.pwallet

\* C25: whenever CreateNewBlock with a wallet attempts a coinstake search
\* (searchTime > lastCoinStakeSearchTime), on return lastCoinStakeSearchTime
\* is searchTime and m_last_coin_stake_search_interval is searchTime minus the
\* previous lastCoinStakeSearchTime, whether CreateCoinStake succeeded,
\* failed, or its result was discarded by the MedianTimePast check.
C25_SearchTimesUpdated ==
    [][(ReturnsWithWallet /\ MaskStakeTime(clock) > LastCoinStakeSearchTime)
         => /\ nLastCoinStakeSearchTime' = MaskStakeTime(clock)
            /\ m_last_coin_stake_search_interval' =
                   MaskStakeTime(clock) - LastCoinStakeSearchTime]_vars

\* A search whose coinstake the MedianTimePast check discarded has left both
\* values updated.
C25_Witness ==
    /\ pc = "done"
    /\ stake.pwallet
    /\ stake.searched
    /\ stake.created
    /\ stake.fPoSCancel
    /\ result = "null"
    /\ nLastCoinStakeSearchTime = stake.txTime
    /\ m_last_coin_stake_search_interval > 0

\* A search in which CreateCoinStake found nothing has left both values
\* updated.
FailedSearchUpdatesTimes ==
    /\ pc = "done"
    /\ stake.searched
    /\ ~stake.created
    /\ nLastCoinStakeSearchTime = stake.txTime
    /\ m_last_coin_stake_search_interval > 0

\* C26: across the CreateNewBlock calls with a wallet CreateCoinStake is
\* invoked at most once per masked search timestamp: only when searchTime is
\* strictly greater than lastCoinStakeSearchTime, which never decreases and
\* is searchTime after the search; a call with searchTime <=
\* lastCoinStakeSearchTime returns null with the cancel flag set without
\* searching.
C26_OneSearchPerTimestamp ==
    [][/\ nLastCoinStakeSearchTime' >= nLastCoinStakeSearchTime
       /\ (ReturnsWithWallet /\ stake'.searched)
             => /\ MaskStakeTime(clock) > LastCoinStakeSearchTime
                /\ nLastCoinStakeSearchTime' = MaskStakeTime(clock)
       /\ (ReturnsWithWallet /\ MaskStakeTime(clock) <= LastCoinStakeSearchTime)
             => /\ result' = "null"
                /\ stake'.fPoSCancel
                /\ ~stake'.searched
                /\ ~stake'.created
                /\ nLastCoinStakeSearchTime' = LastCoinStakeSearchTime
                /\ UNCHANGED m_last_coin_stake_search_interval]_vars

\* A call in the second of an earlier search has returned null without
\* searching.
C26_Witness ==
    /\ pc = "done"
    /\ stake.pwallet
    /\ ~stake.searched
    /\ stake.fPoSCancel
    /\ result = "null"
    /\ nLastCoinStakeSearchTime = stake.txTime
    /\ m_last_coin_stake_search_interval > 0

\* ------------------------------------------------------------------------
\* C27-C30: the selection loop's bookkeeping
\* ------------------------------------------------------------------------

\* addPackageTxs has returned through the fee-floor exit of line 489.
FeeFloorExit == cand.outcome = "fee-floor"

\* The current ancestor score of an entry: its mapModifiedTx record if it
\* has one, else its mempool with-ancestor counters.
CurrentScore(t) ==
    IF t \in DOMAIN mapModifiedTx THEN mapModifiedTx[t]
    ELSE CTxMemPoolModifiedEntry(mapTx[t])

\* The feerate of score a is higher than the candidate's package feerate.
HigherThanCandidate(a) ==
    a.nModFeesWithAncestors * cand.packageSize > cand.packageFees * a.nSizeWithAncestors

\* The entries the loop could still choose: those with a mapModifiedTx
\* record and those the walk over mapTx has not passed, the candidate among
\* them, outside the block and failedTx.
RemainingCandidates ==
    ( DOMAIN mapModifiedTx
      \cup { ancestorScoreIndex[i] : i \in mi..Len(ancestorScoreIndex) }
      \cup {cand.iter} ) \ (inBlock \cup failedTx)

\* An entry the walk over mapTx has passed and left outside the block,
\* failedTx and mapModifiedTx.
PassedOver ==
    { ancestorScoreIndex[i] : i \in 1..(mi - 1) }
        \ (inBlock \cup failedTx \cup DOMAIN mapModifiedTx \cup {cand.iter})

\* C27 as stated: when addPackageTxs returns through the fee-floor exit,
\* every mempool entry that is not in the block and not in failedTx has a
\* current ancestor score no higher than that of the candidate that triggered
\* the exit.
C27_NoBetterEntryOutsideBlock ==
    FeeFloorExit =>
        \A t \in DOMAIN mapTx \ (inBlock \cup failedTx) :
            ~HigherThanCandidate(CurrentScore(t))

\* C27, amended: when addPackageTxs returns through the fee-floor exit, every
\* entry the loop could still choose (one with a mapModifiedTx record, or one
\* the walk over mapTx has not passed, outside the block and failedTx) has a
\* current ancestor score no higher than that of the candidate that triggered
\* the exit.
C27_NoBetterCandidateLeft ==
    FeeFloorExit =>
        \A t \in RemainingCandidates : ~HigherThanCandidate(CurrentScore(t))

\* The exit is taken on an entry of mapTx with a mapModifiedTx record left
\* among the candidates.
C27_Witness ==
    /\ FeeFloorExit
    /\ ~cand.fUsingModified
    /\ (DOMAIN mapModifiedTx \cap RemainingCandidates) \ {cand.iter} # {}

\* The exit is taken after the walk has passed over an entry whose score is
\* higher than the candidate's.
PassedOverBetterEntry ==
    /\ FeeFloorExit
    /\ \E t \in PassedOver : HigherThanCandidate(CurrentScore(t))

\* The exit is taken on a mapModifiedTx record with an entry of mapTx left.
FeeFloorExitOnModified ==
    /\ FeeFloorExit
    /\ cand.fUsingModified
    /\ mi <= Len(ancestorScoreIndex)
    /\ ancestorScoreIndex[mi] \in RemainingCandidates

\* The head of an iteration of the loop of addPackageTxs.
LoopHead == pc = "select"

\* The record of entry t as C28 states it: the mempool's with-ancestor
\* counters less the size, modified fee and sigop cost of every ancestor of t
\* that is in inBlock.
ExactRecord(t) ==
    SubtractParents(CTxMemPoolModifiedEntry(mapTx[t]), mapTx[t].ancestors \cap inBlock)

\* C28: at the head of every iteration of addPackageTxs each record in
\* mapModifiedTx holds exactly the entry's mempool with-ancestor counters
\* minus the contributions of those of its ancestors that are in inBlock, also
\* for an entry that was erased after a failure and inserted again later.
C28_ModifiedRecordsExact ==
    LoopHead => \A t \in DOMAIN mapModifiedTx : mapModifiedTx[t] = ExactRecord(t)

\* The records of the entries that never failed are exact.
RecordsOfUnfailedExact ==
    LoopHead => \A t \in DOMAIN mapModifiedTx \ failedTx : mapModifiedTx[t] = ExactRecord(t)

\* An entry of failedTx has a record again, without the contribution of the
\* ancestor that was in the block before it failed.
ReinsertedRecordStale ==
    /\ LoopHead
    /\ \E t \in DOMAIN mapModifiedTx \cap failedTx :
           mapModifiedTx[t].nSizeWithAncestors > ExactRecord(t).nSizeWithAncestors

\* C29: the assertion of line 476, assert(!inBlock.count(iter)), never
\* fails: at the head of every iteration mapModifiedTx holds no entry that is
\* in inBlock, and the candidate chosen is never already in the block.
C29_CandidateNotInBlock ==
    /\ LoopHead => DOMAIN mapModifiedTx \cap inBlock = {}
    /\ Evaluating => Package.iter \notin inBlock

\* A candidate is chosen from mapModifiedTx with one of its ancestors in the
\* block.
C29_Witness ==
    /\ Evaluating
    /\ Package.fUsingModified
    /\ mapTx[Package.iter].ancestors \cap inBlock # {}
    /\ Package.iter \notin inBlock

\* C30: once an entry is in failedTx it is never again chosen as a candidate,
\* from the walk over mapTx or from mapModifiedTx, and it is never added to
\* the block.
C30_FailedNeverChosenAgain ==
    /\ Evaluating => Package.iter \notin failedTx
    /\ failedTx \cap inBlock = {}

\* A candidate taken from the walk over mapTx is never in failedTx.
FailedNeverChosenFromMapTx ==
    (Evaluating /\ ~Package.fUsingModified) => Package.iter \notin failedTx

\* An entry of failedTx is the candidate again, taken from mapModifiedTx.
FailedChosenAgain ==
    /\ Evaluating
    /\ Package.fUsingModified
    /\ Package.iter \in failedTx

\* No entry of failedTx is in the block.
FailedNeverInBlock == failedTx \cap inBlock = {}

\* ------------------------------------------------------------------------
\* The stake cache while it is fresh
\* ------------------------------------------------------------------------

\* CheckKernel answers the same with the cache as without it, for every
\* nBits and nTime the kernel is checked on.
SameWithAndWithoutCache(prevout) ==
    \A nBits \in TargetBits, nTime \in KernelTimes :
        CheckKernel(pindexPrev, nBits, nTime, prevout, view, stakeCache)
            = CheckKernelWithoutCache(pindexPrev, nBits, nTime, prevout, view)

\* C31: if the cache entry of an outpoint was inserted by CacheKernel from a
\* view and a prev index, and neither has changed since, CheckKernel with the
\* cache returns what CheckKernel without a cache returns, for every nBits
\* and nTime.
C31_FreshCacheChangesNoOutcome ==
    \A prevout \in freshEntries :
        /\ prevout \in DOMAIN stakeCache
        /\ SameWithAndWithoutCache(prevout)

\* CheckKernel has just answered yes on an outpoint whose entry is fresh, and
\* there is a target and a time on which it answers no.
C31_Witness ==
    /\ kernelCall.op = "CheckKernel"
    /\ kernelCall.prevout \in freshEntries
    /\ kernelCall.ok
    /\ \E nBits \in TargetBits, nTime \in KernelTimes :
           ~CheckKernel(pindexPrev, nBits, nTime, kernelCall.prevout, view, stakeCache)

\* The freshness matters: once the view or the prev index has changed, there
\* are entries with which CheckKernel answers no where it answers yes
\* without a cache.
StaleCacheChangesOutcome ==
    \E prevout \in DOMAIN stakeCache \ freshEntries :
        ~SameWithAndWithoutCache(prevout)

\* Even then the cache only turns a yes into a no.
CacheNeverAddsAStake ==
    \A prevout \in Prevouts, nBits \in TargetBits, nTime \in KernelTimes :
        CheckKernel(pindexPrev, nBits, nTime, prevout, view, stakeCache)
            => CheckKernelWithoutCache(pindexPrev, nBits, nTime, prevout, view)

\* ------------------------------------------------------------------------
\* The height in the coinbase of a staked block
\* ------------------------------------------------------------------------

\* The height IncrementExtraNonce has put first into the coinbase scriptSig
\* of the block of thread t.
CoinbaseHeight(t) == tloc[t].tmpl.scriptSig[1]

\* C32: for every block the staking loop passes to SignBlock and
\* ProcessBlockFound, the height that IncrementExtraNonce encoded in the
\* coinbase scriptSig is the height of the block's parent (the tip
\* CreateNewBlock read under cs_main and stored in hashPrevBlock) plus one,
\* also when the active tip changes between the loop's unlocked read of the
\* tip and the CreateNewBlock call.
C32_CoinbaseHeightIsParentPlusOne ==
    \A t \in ThreadIds :
        tpc[t] \in SigningOrSubmitting
            => CoinbaseHeight(t) = tloc[t].tmpl.prev + 1

\* The height encoded is that of the tip the loop read at line 681.
CoinbaseHeightIsOfTheTipRead ==
    \A t \in ThreadIds :
        tpc[t] \in SigningOrSubmitting
            => CoinbaseHeight(t) = tloc[t].pindexPrev + 1

\* The two agree as long as the tip CreateNewBlock read is the one the loop
\* read.
CoinbaseHeightRightOnTheTipRead ==
    \A t \in ThreadIds :
        (tpc[t] \in SigningOrSubmitting /\ tloc[t].tmpl.prev = tloc[t].pindexPrev)
            => CoinbaseHeight(t) = tloc[t].tmpl.prev + 1

\* A signed block whose parent was the tip when ProcessBlockFound looked is
\* about to be handed to ProcessNewBlock with the height of another parent
\* in its coinbase.
WrongHeightHandedOver ==
    \E t \in ThreadIds :
        /\ tpc[t] = "ProcessNewBlock"
        /\ tloc[t].tmpl.signed
        /\ tloc[t].tipAtCheck = tloc[t].tmpl.prev
        /\ CoinbaseHeight(t) # tloc[t].tmpl.prev + 1

\* CreateNewBlock itself leaves the height of its own tip in the coinbase.
TemplateHeightIsParentPlusOne ==
    \A t \in ThreadIds :
        (tpc[t] \in {"returned", "IncrementExtraNonce"} /\ tloc[t].tmpl # NoTemplate)
            => CoinbaseHeight(t) = tloc[t].tmpl.prev + 1

====
